---- MODULE Spec2Model ----
(***************************************************************************)
(* Novelty-detection / content-memory engine of DeepResearchAgent          *)
(* (src/memory.ts = src/unnamed/part_002, store functions of src/db.ts =   *)
(* src/unnamed/part_004).                                                  *)
(*                                                                         *)
(* Strings are sequences of character codes (ASCII), so that String.sort,  *)
(* toLowerCase, the regular expressions and the "|" join of the hasher are *)
(* computed as the code computes them.                                     *)
(***************************************************************************)
EXTENDS Integers, Sequences, FiniteSets, TLC

\* ------------------------------------------------------------------------
\* Characters and strings
\* ------------------------------------------------------------------------

\* The ASCII codes of the characters the code's regular expressions name.
Ascii ==
  [ tab |-> 9, nl |-> 10, sp |-> 32, bang |-> 33, quot |-> 34, hash |-> 35,
    amp |-> 38, apos |-> 39, dot |-> 46, slash |-> 47, colon |-> 58,
    semi |-> 59, lt |-> 60, eq |-> 61, gt |-> 62, qm |-> 63, pipe |-> 124 ]

\* c repeated n times
Rep(c, n) == [ i \in 1..n |-> c ]

\* the least element of a non-empty set of integers
Least(S) == CHOOSE i \in S : \A k \in S : i <= k

\* /\s/ on ASCII
IsSpace(c) == c \in {9, 10, 11, 12, 13, 32}

\* String.prototype.toLowerCase on ASCII
ToLowerChar(c) == IF c >= 65 /\ c <= 90 THEN c + 32 ELSE c

ToLowerCase(s) == [ i \in 1..Len(s) |-> ToLowerChar(s[i]) ]

\* does the literal pat occur in s at position i
MatchAt(s, i, pat) ==
  /\ i >= 1
  /\ i + Len(pat) - 1 <= Len(s)
  /\ \A k \in 1..Len(pat) : s[i + k - 1] = pat[k]

\* s.replace(/pat/g, rep) for a literal pat: copy up to the next match
RECURSIVE ReplaceAllFrom(_, _, _, _)
ReplaceAllFrom(s, i, pat, rep) ==
  LET hits == { k \in i..Len(s) : MatchAt(s, k, pat) }
  IN  IF hits = {} THEN SubSeq(s, i, Len(s))
      ELSE SubSeq(s, i, Least(hits) - 1) \o rep
             \o ReplaceAllFrom(s, Least(hits) + Len(pat), pat, rep)

ReplaceAll(s, pat, rep) == ReplaceAllFrom(s, 1, pat, rep)

\* the least index >= i of s holding character c, or 0
IndexFrom(s, i, c) ==
  LET hits == { k \in i..Len(s) : s[k] = c }
  IN  IF hits = {} THEN 0 ELSE Least(hits)

\* /<[^>]+>/ matches at k: a "<", then at least one character before the next ">"
TagAt(s, k) == s[k] = Ascii.lt /\ IndexFrom(s, k + 1, Ascii.gt) >= k + 2

\* s.replace(/<[^>]+>/g, " ")
RECURSIVE StripTagsFrom(_, _)
StripTagsFrom(s, i) ==
  LET tags == { k \in i..Len(s) : TagAt(s, k) }
  IN  IF tags = {} THEN SubSeq(s, i, Len(s))
      ELSE SubSeq(s, i, Least(tags) - 1) \o <<Ascii.sp>>
             \o StripTagsFrom(s, IndexFrom(s, Least(tags) + 1, Ascii.gt) + 1)

StripTags(s) == StripTagsFrom(s, 1)

\* s.replace(/\s+/g, " "): the first character of each whitespace run becomes a
\* space, the rest of the run is dropped
CollapseWhitespace(s) ==
  LET Kept(i) == ~IsSpace(s[i]) \/ i = 1 \/ ~IsSpace(s[i - 1])
      kept    == SelectSeq([ i \in 1..Len(s) |-> i ], Kept)
  IN  [ k \in 1..Len(kept) |-> IF IsSpace(s[kept[k]]) THEN Ascii.sp ELSE s[kept[k]] ]

\* String.prototype.trim
Trim(s) ==
  LET idx == { i \in 1..Len(s) : ~IsSpace(s[i]) }
  IN  IF idx = {} THEN <<>>
      ELSE SubSeq(s, Least(idx), Len(s) + 1 - Least({ Len(s) + 1 - i : i \in idx }))

\* /[.!?]/
IsTerminator(c) == c \in {Ascii.dot, Ascii.bang, Ascii.qm}

\* s.split(/[.!?]+/) from position i on: the piece up to the next run of
\* terminators, then the pieces after that run
RECURSIVE SplitFrom(_, _)
SplitFrom(s, i) ==
  LET terms == { k \in i..Len(s) : IsTerminator(s[k]) }
  IN  IF terms = {} THEN <<SubSeq(s, i, Len(s))>>
      ELSE LET first == Least(terms)
               rest  == { k \in first..Len(s) : ~IsTerminator(s[k]) }
               next  == IF rest = {} THEN Len(s) + 1 ELSE Least(rest)
           IN  <<SubSeq(s, i, first - 1)>> \o SplitFrom(s, next)

SplitSentences(s) == SplitFrom(s, 1)

\* the elements of a sequence
Range(q) == { q[i] : i \in 1..Len(q) }

\* lexicographic order on code units, the default order of Array.prototype.sort
StrLess(a, b) ==
  LET n    == IF Len(a) < Len(b) THEN Len(a) ELSE Len(b)
      diff == { i \in 1..n : a[i] /= b[i] }
  IN  IF diff = {} THEN Len(a) < Len(b) ELSE a[Least(diff)] < b[Least(diff)]

\* insert string x into the sorted list q
RECURSIVE InsertSorted(_, _)
InsertSorted(x, q) ==
  IF q = <<>> THEN <<x>>
  ELSE IF StrLess(x, Head(q)) THEN <<x>> \o q
  ELSE <<Head(q)>> \o InsertSorted(x, Tail(q))

\* Array.prototype.sort on strings
RECURSIVE SortStrings(_)
SortStrings(q) ==
  IF q = <<>> THEN <<>> ELSE InsertSorted(Head(q), SortStrings(Tail(q)))

\* Array.prototype.join
RECURSIVE Join(_, _)
Join(q, sep) ==
  IF q = <<>> THEN <<>>
  ELSE IF Len(q) = 1 THEN Head(q)
  ELSE Head(q) \o sep \o Join(Tail(q), sep)

\* Array.from(new Set(q)): the first occurrence of each element, in order
RECURSIVE Dedupe(_)
Dedupe(q) ==
  IF q = <<>> THEN <<>>
  ELSE LET front == Dedupe(SubSeq(q, 1, Len(q) - 1))
           last  == q[Len(q)]
       IN  IF last \in Range(front) THEN front ELSE Append(front, last)

\* ------------------------------------------------------------------------
\* memory.ts: extraction and hashing
\* ------------------------------------------------------------------------

\* the length bounds of a finding and the cap on findings per report
MinFindingLen == 30
MaxFindingLen == 500
MaxFindings == 10
\* the history windows detectNovelContent asks the store for
RecentDays == 7
RecentMemories == 50

\* the entity replacements of extractKeyFindings, in the code's order
Entities ==
  << [pat |-> <<38, 110, 98, 115, 112, 59>>,     rep |-> <<32>>],   \* &nbsp;
     [pat |-> <<38, 97, 109, 112, 59>>,          rep |-> <<38>>],   \* &amp;
     [pat |-> <<38, 108, 116, 59>>,              rep |-> <<60>>],   \* &lt;
     [pat |-> <<38, 103, 116, 59>>,              rep |-> <<62>>],   \* &gt;
     [pat |-> <<38, 113, 117, 111, 116, 59>>,    rep |-> <<34>>],   \* &quot;
     [pat |-> <<38, 35, 48, 51, 57, 59>>,        rep |-> <<39>>] >> \* &#039;

RECURSIVE DecodeEntities(_, _)
DecodeEntities(s, k) ==
  IF k > Len(Entities) THEN s
  ELSE DecodeEntities(ReplaceAll(s, Entities[k].pat, Entities[k].rep), k + 1)

\* mutant of IsFindingLength: both bounds are inclusive
IsFindingLength_Inclusive(s) == Len(s) >= MinFindingLen /\ Len(s) <= MaxFindingLen

\* the sentence filter of extractKeyFindings
IsFindingLength(s) == Len(s) > MinFindingLen /\ Len(s) < MaxFindingLen

extractKeyFindings(htmlContent) ==
  LET text      == Trim(CollapseWhitespace(DecodeEntities(StripTags(htmlContent), 1)))
      pieces    == SplitSentences(text)
      trimmed   == [ i \in 1..Len(pieces) |-> Trim(pieces[i]) ]
      sentences == SelectSeq(trimmed, IsFindingLength)
  IN  SubSeq(sentences, 1, IF Len(sentences) < MaxFindings
                           THEN Len(sentences) ELSE MaxFindings)

\* href="http  and  ://
HrefHttp == <<104, 114, 101, 102, 61, 34, 104, 116, 116, 112>>
SchemeSep == <<58, 47, 47>>

\* /href="(https?:\/\/[^"]+)"/ matches at i: the position after the scheme
\* separator, or 0 (the "s" is optional)
UrlBodyAt(s, i) ==
  LET afterHttp == i + Len(HrefHttp)
  IN  IF ~MatchAt(s, i, HrefHttp) THEN 0
      ELSE IF MatchAt(s, afterHttp, <<115>> \o SchemeSep) THEN afterHttp + 1 + Len(SchemeSep)
      ELSE IF MatchAt(s, afterHttp, SchemeSep) THEN afterHttp + Len(SchemeSep)
      ELSE 0

\* the closing quote of the match at i, or 0: [^"]+ needs one character at least
UrlCloseAt(s, i) ==
  LET body  == UrlBodyAt(s, i)
      close == IF body = 0 THEN 0 ELSE IndexFrom(s, body, Ascii.quot)
  IN  IF close > body THEN close ELSE 0

\* the capture groups of every match of the regular expression from position
\* i on, in order
RECURSIVE UrlMatchesFrom(_, _)
UrlMatchesFrom(s, i) ==
  LET hits == { k \in i..Len(s) : UrlCloseAt(s, k) > 0 }
  IN  IF hits = {} THEN <<>>
      ELSE LET k == Least(hits)
           IN  <<SubSeq(s, k + Len(HrefHttp) - 4, UrlCloseAt(s, k) - 1)>>
                 \o UrlMatchesFrom(s, UrlCloseAt(s, k) + 1)

\* mutant of extractSourceUrls: the matches are collected in a list, not a set
extractSourceUrls_NoSet(htmlContent) == UrlMatchesFrom(htmlContent, 1)

extractSourceUrls(htmlContent) == Dedupe(UrlMatchesFrom(htmlContent, 1))

\* f.toLowerCase().replace(/\s+/g, " ").trim()
NormalizeFinding(f) == Trim(CollapseWhitespace(ToLowerCase(f)))

\* mutant of generateContentHash: the normalized findings are not sorted
generateContentHash_Unsorted(keyFindings) ==
  Join([ i \in 1..Len(keyFindings) |-> NormalizeFinding(keyFindings[i]) ],
       <<Ascii.pipe>>)

\* The digest is modelled by its input: the sorted normalized findings joined
\* with "|" (SHA-256 is taken to be injective on the strings of the model).
generateContentHash(keyFindings) ==
  Join(SortStrings([ i \in 1..Len(keyFindings) |-> NormalizeFinding(keyFindings[i]) ]),
       <<Ascii.pipe>>)

\* ------------------------------------------------------------------------
\* Bounds and inputs
\* ------------------------------------------------------------------------

\* calls started in one run, and clock advances in one run
MaxCalls == 2
MaxTicks == 1

\* the concurrent callers of the memory core
Procs == {1, 2}

\* two topic names that differ in letter case only
Topics == {"T1", "t1"}

\* a sentence long enough to be a finding, made of character c
Sentence(c) == Rep(c, MinFindingLen + 1)

UrlU == <<104, 116, 116, 112, 58, 47, 47, 117>>          \* http://u
UrlV == <<104, 116, 116, 112, 115, 58, 47, 47, 118>>     \* https://v

\* <a href="u">x</a>
Anchor(u) == <<60, 97, 32>> \o SubSeq(HrefHttp, 1, 6) \o u
               \o <<34, 62, 120, 60, 47, 97, 62>>

\* <p>s</p>
Para(s) == <<60, 112, 62>> \o s \o <<60, 47, 112, 62>>

\* The report bodies of the model, by name.  A and B are two findings, F the
\* finding of the reports that fill a long history.
Html ==
  [ A   |-> Para(Sentence(97) \o <<46>>),
    AB  |-> Para(Sentence(97) \o <<46, 32>> \o Sentence(98) \o <<46>>),
    ApB |-> Para(Sentence(97) \o <<124>> \o Sentence(98) \o <<46>>),
    Au  |-> Para(Sentence(97) \o <<46>>) \o Anchor(UrlU),
    Avu |-> Para(Sentence(97) \o <<46>>) \o Anchor(UrlV) \o Anchor(UrlU) \o Anchor(UrlV),
    ABu |-> Para(Sentence(65) \o <<33, 32, 32>> \o Sentence(98) \o <<46>>) \o Anchor(UrlU),
    F   |-> Para(Sentence(102) \o <<46>>) ]

\* extractKeyFindings, extractSourceUrls and generateContentHash of the report
\* bodies of the model, tabulated
KeyFindingsOf == [ h \in DOMAIN Html |-> extractKeyFindings(Html[h]) ]
SourceUrlsOf == [ h \in DOMAIN Html |-> extractSourceUrls(Html[h]) ]
ContentHashOf == [ h \in DOMAIN Html |-> generateContentHash(KeyFindingsOf[h]) ]

\* NormalizeFinding of the findings of the model, tabulated
Normalized ==
  [ f \in UNION { Range(KeyFindingsOf[h]) : h \in DOMAIN Html } |-> NormalizeFinding(f) ]

\* userId omitted by the caller
Undefined == "undefined"

\* the calls a sequential run may make
Requests ==
  { [op |-> "process", topic |-> "T1", html |-> h, userId |-> Undefined]
      : h \in {"A", "AB", "ApB", "Au", "Avu", "ABu"} }
  \cup { [op |-> "process", topic |-> "t1", html |-> "Au", userId |-> "alice"] }
  \cup { [op |-> "detect", topic |-> "T1", html |-> h, userId |-> Undefined]
      : h \in {"A", "ABu"} }

\* the calls concurrent callers may make
ConcurrentRequests ==
  { [op |-> "process", topic |-> "T1", html |-> "A", userId |-> Undefined],
    [op |-> "process", topic |-> "t1", html |-> "A", userId |-> "alice"],
    [op |-> "detect", topic |-> "T1", html |-> "A", userId |-> Undefined] }

\* the calls made in the runs that also delete reports and topics
DeleteRequests ==
  { [op |-> "process", topic |-> "T1", html |-> "A", userId |-> Undefined],
    [op |-> "process", topic |-> "t1", html |-> "Au", userId |-> "alice"],
    [op |-> "detect", topic |-> "T1", html |-> "A", userId |-> Undefined] }

\* ------------------------------------------------------------------------
\* State
\* ------------------------------------------------------------------------

VARIABLES
  content_memory,   \* the rows of table content_memory, in insertion order
  notifications,    \* the rows of table notifications, in insertion order
  clock,            \* Date.now(), in days
  ticks,            \* clock advances so far
  nextReportId,     \* the id the next saved report gets
  started,          \* calls started so far
  call,             \* call[p]: the call caller p is in, with its locals
  processed,        \* history: the <<topic, html>> of completed processReportMemory calls
  obs,              \* history: obs[p], what held of the store as call[p] ran
  reports,          \* the rows of table reports, as [id, topic]
  topics,           \* the names of the rows of table topics
  pure,             \* the inputs and results of the pure functions applied on their own
  agent,            \* the research workflow: its node, its state, what it returned
  pipeline          \* the pipeline status module and the manual triggers made so far

vars == <<content_memory, notifications, clock, ticks, nextReportId, started,
          call, processed, obs, reports, topics, pure, agent, pipeline>>

\* ------------------------------------------------------------------------
\* agent.ts: the research workflow
\* ------------------------------------------------------------------------

MAX_ITERATIONS == 3
MIN_WORD_COUNT == 100
\* recursionLimit of graph.invoke: the node calls a run may make
RecursionLimit == 25

\* the number of queries the planner returns and of results a search gives
\* at most
MaxQueries == 2
MaxResults == 2

\* synthesis.split(/\s+/).length: one more than the runs of whitespace
SplitWhitespaceLength(s) ==
  1 + Cardinality({ i \in 1..Len(s) : IsSpace(s[i]) /\ (i = 1 \/ ~IsSpace(s[i - 1])) })

\* mutant of shouldContinueSearch: the iteration cap is not tested
shouldContinueSearch_NoCap(state) ==
  IF state.synthesis = <<>> THEN "planner"
  ELSE IF SplitWhitespaceLength(state.synthesis) < MIN_WORD_COUNT THEN "planner"
  ELSE "end"

\* the router of the conditional edge after synthesize
shouldContinueSearch(state) ==
  IF state.iterations >= MAX_ITERATIONS THEN "end"
  ELSE IF state.synthesis = <<>> THEN "planner"
  ELSE IF SplitWhitespaceLength(state.synthesis) < MIN_WORD_COUNT
          /\ state.iterations < MAX_ITERATIONS THEN "planner"
  ELSE "end"

\* String(n) of a natural number
RECURSIVE DecimalString(_)
DecimalString(n) ==
  IF n < 10 THEN <<48 + n>> ELSE DecimalString(n \div 10) \o <<48 + (n % 10)>>

\* escapeHtml: & < > " ' are replaced in one pass
EscapeChar(c) ==
  IF c = 38 THEN <<38, 97, 109, 112, 59>>
  ELSE IF c = 60 THEN <<38, 108, 116, 59>>
  ELSE IF c = 62 THEN <<38, 103, 116, 59>>
  ELSE IF c = 34 THEN <<38, 113, 117, 111, 116, 59>>
  ELSE IF c = 39 THEN <<38, 35, 48, 51, 57, 59>>
  ELSE <<c>>

escapeHtml(text) == Join([ i \in 1..Len(text) |-> EscapeChar(text[i]) ], <<>>)

\* escapeAttr: the same characters, replaced one after the other, & first
escapeAttr(text) ==
  ReplaceAll(ReplaceAll(ReplaceAll(ReplaceAll(ReplaceAll(text,
    <<38>>, <<38, 97, 109, 112, 59>>), <<34>>, <<38, 113, 117, 111, 116, 59>>), <<39>>, <<38, 35,
        48, 51, 57, 59>>),
    <<60>>, <<38, 108, 116, 59>>), <<62>>, <<38, 103, 116, 59>>)

\* [a-zA-Z0-9_-] and [a-zA-Z0-9._-]
KeyChars == (97..122) \cup (65..90) \cup (48..57) \cup {95, 45}
TokenChars == KeyChars \cup {46}

\* s.replace(/<prefix>[<chars>]+/g, rep)
RECURSIVE ReplaceSecretsFrom(_, _, _, _, _)
ReplaceSecretsFrom(s, i, prefix, chars, rep) ==
  LET hits == { k \in i..Len(s) :
                  /\ MatchAt(s, k, prefix)
                  /\ k + Len(prefix) <= Len(s)
                  /\ s[k + Len(prefix)] \in chars }
  IN  IF hits = {} THEN SubSeq(s, i, Len(s))
      ELSE LET k    == Least(hits)
               from == k + Len(prefix)
               stop == Least({ j \in from..(Len(s) + 1) : j > Len(s) \/ s[j] \notin chars })
           IN  SubSeq(s, i, k - 1) \o rep
                 \o ReplaceSecretsFrom(s, stop, prefix, chars, rep)

\* utils/errors.ts: API keys and tokens are masked
sanitizeErrorForLog(message) ==
  LET a == ReplaceSecretsFrom(message, 1, <<115, 107, 45>>, KeyChars, <<115, 107, 45, 42, 42, 42>>)
      b == ReplaceSecretsFrom(a, 1, <<116, 118, 108, 121, 45>>, KeyChars, <<116, 118, 108, 121,
          45, 42, 42, 42>>)
      c == ReplaceSecretsFrom(b, 1, <<66, 101, 97, 114, 101, 114, 32>>, TokenChars, <<66, 101, 97,
          114, 101, 114, 32, 42, 42, 42>>)
  IN  ReplaceSecretsFrom(c, 1, <<97, 99, 99, 101, 115, 115, 95, 116, 111, 107, 101, 110, 61>>,
      TokenChars, <<97, 99, 99, 101, 115, 115, 95, 116, 111, 107, 101, 110, 61, 42, 42, 42>>)

\* the results a search can give: the first k of these
ResultPool ==
  << [ url |-> <<104, 116, 116, 112, 58, 47, 47, 97, 47, 63, 120, 38, 121>>, title |-> <<65, 60,
      49, 62>> ],
     [ url |-> <<104, 116, 116, 112, 115, 58, 47, 47, 98>>, title |-> <<66>> ],
     [ url |-> <<104, 116, 116, 112, 115, 58, 47, 47, 99>>, title |-> <<67>> ],
     [ url |-> <<104, 116, 116, 112, 115, 58, 47, 47, 100>>, title |-> <<68>> ] >>

SearchResults(k) == SubSeq(ResultPool, 1, k)

\* results.slice(0, 3).map(r => <a href=... target="_blank">title</a>).join(", ")
SourcesHtml(results) ==
  LET shown == SubSeq(results, 1, IF Len(results) < 3 THEN Len(results) ELSE 3)
  IN  Join([ i \in 1..Len(shown) |->
               <<60, 97, 32, 104, 114, 101, 102, 61, 34>> \o escapeAttr(shown[i].url)
                 \o <<34, 32, 116, 97, 114, 103, 101, 116, 61, 34, 95, 98, 108, 97, 110, 107, 34,
                     62>> \o escapeHtml(shown[i].title) \o <<60, 47, 97, 62>> ],
           <<44, 32>>)

\* the report returned when the synthesis is empty
generateFallbackReport(topic, results) ==
  Trim(<<10, 60, 100, 105, 118, 32, 99, 108, 97, 115, 115, 61, 34, 114, 101, 112, 111, 114, 116,
      45, 105, 116, 101, 109, 34, 62, 10, 32, 32, 60, 112, 62, 10, 32, 32, 32, 32, 82, 101, 115,
      101, 97, 114, 99, 104, 32, 99, 111, 110, 100, 117, 99, 116, 101, 100, 32, 111, 110, 32, 116,
      111, 112, 105, 99, 58, 32, 60, 115, 116, 114, 111, 110, 103, 62>>
       \o escapeHtml(topic)
       \o <<60, 47, 115, 116, 114, 111, 110, 103, 62, 46, 10, 32, 32, 32, 32>>
       \o DecimalString(Len(results))
       \o <<32, 114, 101, 108, 101, 118, 97, 110, 116, 32, 115, 111, 117, 114, 99, 101, 115, 32,
           119, 101, 114, 101, 32, 105, 100, 101, 110, 116, 105, 102, 105, 101, 100, 32, 97, 110,
           100, 32, 99, 111, 109, 112, 105, 108, 101, 100, 32, 98, 101, 108, 111, 119, 46, 10, 32,
           32, 60, 47, 112, 62, 10, 32, 32>>
       \o (IF SourcesHtml(results) /= <<>>
           THEN <<60, 112, 32, 99, 108, 97, 115, 115, 61, 34, 115, 111, 117, 114, 99, 101, 115,
               34, 62, 60, 115, 116, 114, 111, 110, 103, 62, 83, 111, 117, 114, 99, 101, 115, 58,
               60, 47, 115, 116, 114, 111, 110, 103, 62, 32>>
                  \o SourcesHtml(results) \o <<60, 47, 112, 62>>
           ELSE <<>>)
       \o <<10, 60, 47, 100, 105, 118, 62>>)

\* the report returned when the workflow throws
generateErrorReport(topic, errorMsg) ==
  Trim(<<10, 60, 100, 105, 118, 32, 99, 108, 97, 115, 115, 61, 34, 114, 101, 112, 111, 114, 116,
      45, 105, 116, 101, 109, 32, 101, 114, 114, 111, 114, 34, 62, 10, 32, 32, 60, 112, 62, 10,
      32, 32, 32, 32, 82, 101, 115, 101, 97, 114, 99, 104, 32, 102, 111, 114, 32, 60, 115, 116,
      114, 111, 110, 103, 62>>
       \o escapeHtml(topic)
       \o <<60, 47, 115, 116, 114, 111, 110, 103, 62, 32, 101, 110, 99, 111, 117, 110, 116, 101,
           114, 101, 100, 32, 97, 110, 32, 101, 114, 114, 111, 114, 46, 10, 32, 32, 60, 47, 112,
           62, 10, 32, 32, 60, 112, 32, 99, 108, 97, 115, 115, 61, 34, 101, 114, 114, 111, 114,
           45, 100, 101, 116, 97, 105, 108, 115, 34, 62, 10, 32, 32, 32, 32, 69, 114, 114, 111,
           114, 58, 32>>
       \o escapeHtml(sanitizeErrorForLog(errorMsg))
       \o <<10, 32, 32, 60, 47, 112, 62, 10, 60, 47, 100, 105, 118, 62>>)

\* the research agent before its first run
IdleAgent ==
  [ node |-> "idle", topic |-> <<>>, search_queries |-> 0, search_results |-> 0,
    synthesis |-> <<>>, iterations |-> 0, passes |-> 0, steps |-> 0,
    threw |-> FALSE, error |-> <<>>, result |-> <<>> ]

\* the pipeline status module as loaded
IdlePipeline ==
  [ pipelineRunning |-> FALSE, lastRunInfo |-> "null", registeredRunFn |-> "null",
    runs |-> 0, invocations |-> 0, failuresLogged |-> 0, triggers |-> <<>> ]

\* ------------------------------------------------------------------------
\* db.ts: the content memory store
\* ------------------------------------------------------------------------

\* A stored text that is not JSON.  The texts saveContentMemory writes are the
\* JSON of string arrays and are modelled by the arrays; this value is the
\* text of a row of a loaded database file that JSON.parse rejects.
InvalidJson == << <<-1>> >>

\* JSON.parse(text) returns
JsonParses(text) == text /= InvalidJson

\* try { JSON.parse(text).forEach(...) } catch {}: the elements the loop body
\* sees; a text that does not parse is passed over
ParsedOrSkipped(text) == IF JsonParses(text) THEN text ELSE <<>>

\* mutant of TopicRows: the topic is not compared
TopicRows_AnyTopic(topic) == 1..Len(content_memory)

\* the rows WHERE topic = ?
TopicRows(topic) ==
  { i \in 1..Len(content_memory) : content_memory[i].topic = topic }

\* mutant of hasContentHash: only the rows of the URL window are searched
hasContentHash_RecentOnly(topic, contentHash) ==
  \E i \in TopicRows(topic) :
    /\ content_memory[i].content_hash = contentHash
    /\ content_memory[i].created_at >= clock - RecentDays

\* SELECT COUNT(*) ... WHERE topic = ? AND content_hash = ?  > 0
hasContentHash(topic, contentHash) ==
  \E i \in TopicRows(topic) : content_memory[i].content_hash = contentHash

\* mutant of getRecentSourceUrls: the cutoff is not applied
getRecentSourceUrls_AllTime(topic, daysBack) ==
  UNION { Range(ParsedOrSkipped(content_memory[i].source_urls)) : i \in TopicRows(topic) }

\* the URLs of the rows WHERE topic = ? AND created_at >= cutoff
getRecentSourceUrls(topic, daysBack) ==
  UNION { Range(ParsedOrSkipped(content_memory[i].source_urls)) :
            i \in { k \in TopicRows(topic) :
                      content_memory[k].created_at >= clock - daysBack } }

\* The possible results of  WHERE topic = ? ORDER BY created_at DESC LIMIT ?,
\* as sets of rows: among rows of equal created_at the order is unspecified,
\* so any of them may fill the last places.
getContentMemory(topic, limit) ==
  LET rows     == TopicRows(topic)
      Newer(i) == { k \in rows : content_memory[k].created_at
                                   > content_memory[i].created_at }
      Tied(i)  == { k \in rows : content_memory[k].created_at
                                   = content_memory[i].created_at }
  IN  IF Cardinality(rows) <= limit THEN {rows}
      ELSE LET edge == CHOOSE i \in rows :
                         /\ Cardinality(Newer(i)) < limit
                         /\ Cardinality(Newer(i)) + Cardinality(Tied(i)) >= limit
           IN  { Newer(edge) \cup T :
                   T \in { X \in SUBSET Tied(edge) :
                             Cardinality(X) = limit - Cardinality(Newer(edge)) } }

\* mutant of Insert: the row replaces the last row of the table
Insert_OverwriteLast(table, row) ==
  IF table = <<>> THEN <<row>> ELSE [ table EXCEPT ![Len(table)] = row ]

\* mutant of Insert: the statement is prepared and never stepped
Insert_NeverStepped(table, row) == table

\* execute(database, "INSERT INTO ...", [...]): the table with the row added
Insert(table, row) == Append(table, row)

\* mutant of saveContentMemory: the hash column is left empty
saveContentMemory_NoHash(topic, contentHash, keyFindings, sourceUrls, reportId) ==
  [ topic |-> topic, content_hash |-> <<>>, key_findings |-> keyFindings,
    source_urls |-> sourceUrls, report_id |-> reportId, created_at |-> clock ]

\* mutant of saveContentMemory: the URLs are left out of the row
saveContentMemory_NoUrls(topic, contentHash, keyFindings, sourceUrls, reportId) ==
  [ topic |-> topic, content_hash |-> contentHash, key_findings |-> keyFindings,
    source_urls |-> <<>>, report_id |-> reportId, created_at |-> clock ]

\* the row saveContentMemory inserts (JSON.stringify / JSON.parse of a string
\* array give the array back)
saveContentMemory(topic, contentHash, keyFindings, sourceUrls, reportId) ==
  [ topic |-> topic, content_hash |-> contentHash, key_findings |-> keyFindings,
    source_urls |-> sourceUrls, report_id |-> reportId, created_at |-> clock ]

\* the row createNotification inserts
createNotification(reportId, userId, type, title, message) ==
  [ report_id |-> reportId, user_id |-> userId, type |-> type, title |-> title,
    message |-> message, read |-> FALSE, created_at |-> clock ]

\* the table reports after saveReport: the row is inserted (no check that the
\* topic has a row in table topics: foreign keys are not enforced)
saveReport(id, topic) == reports \cup { [id |-> id, topic |-> topic] }

\* PRAGMA foreign_keys: initSchema sets journal_mode only, and SQLite leaves
\* foreign keys unenforced unless the connection turns them on
ForeignKeys == FALSE

\* a table whose report_id REFERENCES reports(id) ON DELETE CASCADE, after the
\* reports with these ids are deleted
OnDeleteCascade(table, ids) ==
  LET Stays(row) == row.report_id \notin ids
  IN  IF ForeignKeys THEN SelectSeq(table, Stays) ELSE table

\* the ids of the rows of reports WHERE topic = ?
ReportsOfTopic(topic) == { r.id : r \in { x \in reports : x.topic = topic } }

\* ------------------------------------------------------------------------
\* memory.ts: detectNovelContent and processReportMemory
\* ------------------------------------------------------------------------

\* the verdict returned when the hash is already stored
ExactDuplicateVerdict(keyFindings, contentHash) ==
  [ isNovel |-> FALSE, novelFindings |-> <<>>, knownFindings |-> keyFindings,
    novelUrls |-> <<>>, contentHash |-> contentHash ]

\* mutant of NovelUrls: the filter is left out
NovelUrls_Unfiltered(sourceUrls, recentUrls) == sourceUrls

\* sourceUrls.filter((url) => !recentUrlSet.has(url))
NovelUrls(sourceUrls, recentUrls) ==
  LET IsNew(u) == u \notin recentUrls IN SelectSeq(sourceUrls, IsNew)

\* the normalized findings of the rows read from the store
RecentFindingsSet(rows) ==
  UNION { { Normalized[f] : f \in Range(ParsedOrSkipped(content_memory[i].key_findings)) }
            : i \in rows }

\* mutant of IsNovel: only new URLs make a report novel
IsNovel_UrlsOnly(novelFindings, novelUrls) == Len(novelUrls) > 0

\* isNovel of the verdict
IsNovel(novelFindings, novelUrls) == Len(novelFindings) > 0 \/ Len(novelUrls) > 0

\* mutant of NoveltyVerdict: the known findings are not filtered
NoveltyVerdict_KnownUnfiltered(keyFindings, novelUrls, recentFindingsSet, contentHash) ==
  LET IsNew(f) == Normalized[f] \notin recentFindingsSet
      novel    == SelectSeq(keyFindings, IsNew)
  IN  [ isNovel |-> IsNovel(novel, novelUrls), novelFindings |-> novel,
        knownFindings |-> keyFindings,
        novelUrls |-> novelUrls, contentHash |-> contentHash ]

\* the verdict after the URL and finding checks
NoveltyVerdict(keyFindings, novelUrls, recentFindingsSet, contentHash) ==
  LET IsNew(f)   == Normalized[f] \notin recentFindingsSet
      IsKnown(f) == Normalized[f] \in recentFindingsSet
      novel      == SelectSeq(keyFindings, IsNew)
  IN  [ isNovel |-> IsNovel(novel, novelUrls), novelFindings |-> novel,
        knownFindings |-> SelectSeq(keyFindings, IsKnown),
        novelUrls |-> novelUrls, contentHash |-> contentHash ]

\* userId: string = "anonymous"
DefaultUserId(userId) == IF userId = Undefined THEN "anonymous" ELSE userId

\* mutant of NotificationMessage: the nouns are always plural
NotificationMessage_AlwaysPlural(novelCount, urlCount) ==
  IF novelCount > 0
  THEN <<ToString(novelCount), "new", "findings", "detected">>
         \o (IF urlCount > 0 THEN <<"with", ToString(urlCount), "new", "sources">> ELSE <<>>)
         \o <<".">>
  ELSE <<ToString(urlCount), "new", "sources", "found", ".">>

\* the notification message, as its words
NotificationMessage(novelCount, urlCount) ==
  IF novelCount > 0
  THEN <<ToString(novelCount), "new", IF novelCount > 1 THEN "findings" ELSE "finding",
         "detected">>
         \o (IF urlCount > 0
             THEN <<"with", ToString(urlCount), "new",
                    IF urlCount > 1 THEN "sources" ELSE "source">>
             ELSE <<>>)
         \o <<".">>
  ELSE <<ToString(urlCount), "new", IF urlCount > 1 THEN "sources" ELSE "source",
         "found", ".">>

\* the notification title
NotificationTitle(topic) == <<"New findings for", topic>>

\* mutant of FirstAwait: processReportMemory saves before it detects
FirstAwait_SaveFirst(op) == IF op = "process" THEN "saveContentMemory" ELSE "hasContentHash"

\* the first await of a call: processReportMemory begins with
\* detectNovelContent, which begins with hasContentHash
FirstAwait(op) == "hasContentHash"

\* mutant of AfterVerdict: the notification is attempted before the save
AfterVerdict_NotifyFirst(op) == IF op = "detect" THEN "done" ELSE "createNotification"

\* where a call goes after detectNovelContent has its verdict
AfterVerdict(op) == IF op = "detect" THEN "done" ELSE "saveContentMemory"

\* mutant of AfterSave: the notification is created whatever the verdict
AfterSave_AlwaysNotify(isNovel) == "createNotification"

\* where processReportMemory goes after the record is saved
AfterSave(isNovel) == IF isNovel THEN "createNotification" ELSE "done"

\* what processReportMemory returns
Returned(c) ==
  [ isNovel |-> c.verdict.isNovel, novelFindings |-> c.verdict.novelFindings,
    notificationCreated |-> c.notificationCreated ]

\* mutant of OnReject: a failed history query is taken as an empty history
OnReject_ReadFallback(fn) ==
  IF fn \in {"hasContentHash", "getRecentSourceUrls", "getContentMemory"}
  THEN "saveContentMemory" ELSE "failed"

\* mutant of OnReject: a failed save is caught and the call goes on
OnReject_SaveCaught(fn) ==
  IF fn = "saveContentMemory" THEN "createNotification" ELSE "failed"

\* where a call goes when an awaited store function rejects: no await of
\* memory.ts is inside a try block, so the call rejects
OnReject(fn) == "failed"

\* ------------------------------------------------------------------------
\* What is recorded about a call as it runs (history, read by the properties)
\* ------------------------------------------------------------------------

\* finding f occurs, normalized, in one of the rows
FindingIsIn(f, rows) ==
  \E i \in rows : \E g \in Range(ParsedOrSkipped(content_memory[i].key_findings)) :
    Normalized[g] = Normalized[f]

\* url u is a source URL of one of the rows
UrlIsIn(u, rows) ==
  \E i \in rows : u \in Range(ParsedOrSkipped(content_memory[i].source_urls))

\* the rows of the topic no older than days
RowsWithinDays(topic, days) ==
  { i \in TopicRows(topic) : clock - content_memory[i].created_at <= days }

Active(c) == c.pc \notin {"idle", "done", "failed"}

NoVerdict ==
  [ isNovel |-> FALSE, novelFindings |-> <<>>, knownFindings |-> <<>>,
    novelUrls |-> <<>>, contentHash |-> <<>> ]

IdleCall ==
  [ pc |-> "idle", op |-> "none", topic |-> "none", html |-> "none", reportId |-> 0,
    userId |-> "none", novelUrls |-> <<>>, verdict |-> NoVerdict,
    notificationCreated |-> FALSE, failedAt |-> "none" ]

NoObs ==
  [ solo |-> TRUE, priorSame |-> FALSE, emptyAtStart |-> FALSE,
    persistedAtStart |-> FALSE, unseenAtStart |-> {},
    newUrlAtRead |-> FALSE, newFindingAtRead |-> FALSE, allRecentAtRead |-> FALSE,
    rowsAtStart |-> 0, userIdArg |-> Undefined,
    hashStored |-> FALSE, clockAtUrlRead |-> 0, urlRowsRead |-> {}, rowsRead |-> {} ]

\* what holds of the store when a call for req starts
ObsAtStart(req, alone) ==
  LET findings == KeyFindingsOf[req.html]
      urls     == SourceUrlsOf[req.html]
      rows     == TopicRows(req.topic)
  IN  [ NoObs EXCEPT
          !.solo = alone,
          !.priorSame = (<<req.topic, req.html>> \in processed),
          !.emptyAtStart = (rows = {}),
          !.persistedAtStart =
             /\ \A k \in 1..Len(findings) : FindingIsIn(findings[k], rows)
             /\ \A k \in 1..Len(urls) : UrlIsIn(urls[k], rows),
          !.unseenAtStart = { f \in Range(findings) : ~FindingIsIn(f, rows) },
          !.rowsAtStart = Cardinality(rows),
          !.userIdArg = req.userId ]

\* ------------------------------------------------------------------------
\* Initial states: a fresh database, or the database after report ABu of
\* topic T1 on day 0 and one report F on each of the following days
\* ------------------------------------------------------------------------

HistoryRow(i) ==
  LET h == IF i = 1 THEN "ABu" ELSE "F"
      f == KeyFindingsOf[h]
  IN  [ topic |-> "T1", content_hash |-> ContentHashOf[h], key_findings |-> f,
        source_urls |-> SourceUrlsOf[h], report_id |-> i,
        created_at |-> i - 1 ]

HistoryNotification(i) ==
  [ report_id |-> i, user_id |-> "anonymous", type |-> "new_report",
    title |-> NotificationTitle("T1"),
    message |-> IF i = 1 THEN NotificationMessage(2, 1) ELSE NotificationMessage(1, 0),
    read |-> FALSE, created_at |-> i - 1 ]

\* no pure function is applied on its own
NoPure == [ stage |-> "none", html |-> <<>>, findings |-> <<>>, hash |-> <<>> ]

\* the state after construction, with a history of n reports
InitWith(n) ==
  /\ content_memory = [ i \in 1..n |-> HistoryRow(i) ]
  /\ notifications = [ i \in 1..(IF n = 0 THEN 0 ELSE 2) |-> HistoryNotification(i) ]
  /\ clock = IF n = 0 THEN 0 ELSE n - 1
  /\ nextReportId = n + 1
  /\ processed = IF n = 0 THEN {} ELSE {<<"T1", "ABu">>, <<"T1", "F">>}
  /\ ticks = 0
  /\ started = 0
  /\ call = [ p \in Procs |-> IdleCall ]
  /\ obs = [ p \in Procs |-> NoObs ]
  /\ reports = { [id |-> i, topic |-> "T1"] : i \in 1..n }
  /\ topics = Topics
  /\ pure = NoPure
  /\ agent = IdleAgent
  /\ pipeline = IdlePipeline

\* a fresh database
Init == InitWith(0)

\* a database holding more rows of topic T1 than the finding window, the
\* oldest of them outside the URL window
InitHistory == InitWith(RecentMemories + 1)

\* ------------------------------------------------------------------------
\* Actions
\* ------------------------------------------------------------------------

\* a caller invokes detectNovelContent, or saves a report and invokes
\* processReportMemory with its id: the call extracts and hashes, and waits
\* for the store in hasContentHash.  Callers are interchangeable: a new call
\* takes the first one not in a call.
Call(p, req) ==
  /\ ~Active(call[p])
  /\ \A q \in Procs : q < p => Active(call[q])
  /\ started < MaxCalls
  /\ started' = started + 1
  /\ nextReportId' = IF req.op = "process" THEN nextReportId + 1 ELSE nextReportId
  /\ call' = [ call EXCEPT ![p] =
                 [ IdleCall EXCEPT
                     !.pc = FirstAwait(req.op), !.op = req.op, !.topic = req.topic,
                     !.html = req.html,
                     !.reportId = IF req.op = "process" THEN nextReportId ELSE 0,
                     !.userId = DefaultUserId(req.userId) ] ]
  /\ obs' = [ q \in Procs |->
                IF q = p
                THEN ObsAtStart(req, \A r \in Procs \ {p} : ~Active(call[r]))
                ELSE IF Active(call[q]) THEN [ obs[q] EXCEPT !.solo = FALSE ]
                ELSE obs[q] ]
  /\ reports' = IF req.op = "process"
                THEN saveReport(nextReportId, req.topic) ELSE reports
  /\ UNCHANGED <<content_memory, notifications, clock, ticks, processed,
                 topics, pure, agent, pipeline>>

\* an awaited store function rejects
Reject(p, fn) ==
  /\ call' = [ call EXCEPT ![p].pc = OnReject(fn), ![p].failedAt = fn ]
  /\ UNCHANGED <<content_memory, notifications, clock, ticks, nextReportId,
                 started, processed, obs,
                 reports, topics, pure, agent, pipeline>>

\* detectNovelContent: await hasContentHash(topic, contentHash)
AwaitHasContentHash(p) ==
  /\ call[p].pc = "hasContentHash"
  /\ \/ Reject(p, "hasContentHash")
     \/ LET c           == call[p]
            keyFindings == KeyFindingsOf[c.html]
            sourceUrls  == SourceUrlsOf[c.html]
            contentHash == ContentHashOf[c.html]
        IN  /\ IF hasContentHash(c.topic, contentHash)
               THEN /\ call' = [ call EXCEPT
                                   ![p].verdict = ExactDuplicateVerdict(keyFindings, contentHash),
                                   ![p].pc = AfterVerdict(c.op) ]
                    /\ obs' = [ obs EXCEPT
                         ![p].hashStored = TRUE,
                         ![p].newUrlAtRead =
                            \E k \in 1..Len(sourceUrls) :
                              ~UrlIsIn(sourceUrls[k], RowsWithinDays(c.topic, RecentDays)),
                         ![p].newFindingAtRead =
                            \A rows \in getContentMemory(c.topic, RecentMemories) :
                              \E k \in 1..Len(keyFindings) :
                                ~FindingIsIn(keyFindings[k], rows),
                         ![p].allRecentAtRead =
                            /\ \A k \in 1..Len(sourceUrls) :
                                 UrlIsIn(sourceUrls[k], RowsWithinDays(c.topic, RecentDays))
                            /\ \E rows \in getContentMemory(c.topic, RecentMemories) :
                                 \A k \in 1..Len(keyFindings) :
                                   FindingIsIn(keyFindings[k], rows) ]
               ELSE /\ call' = [ call EXCEPT ![p].pc = "getRecentSourceUrls" ]
                    /\ UNCHANGED obs
            /\ UNCHANGED <<content_memory, notifications, clock, ticks,
                           nextReportId, started, processed,
                           reports, topics, pure, agent, pipeline>>

\* detectNovelContent: await getRecentSourceUrls(topic, 7)
AwaitGetRecentSourceUrls(p) ==
  /\ call[p].pc = "getRecentSourceUrls"
  /\ \/ Reject(p, "getRecentSourceUrls")
     \/ LET c          == call[p]
            sourceUrls == SourceUrlsOf[c.html]
            recentUrls == getRecentSourceUrls(c.topic, RecentDays)
        IN  /\ call' = [ call EXCEPT ![p].novelUrls = NovelUrls(sourceUrls, recentUrls),
                                     ![p].pc = "getContentMemory" ]
            /\ obs' = [ obs EXCEPT
                 ![p].clockAtUrlRead = clock,
                 ![p].urlRowsRead = RowsWithinDays(c.topic, RecentDays),
                 ![p].newUrlAtRead =
                    \E k \in 1..Len(sourceUrls) :
                      ~UrlIsIn(sourceUrls[k], RowsWithinDays(c.topic, RecentDays)) ]
            /\ UNCHANGED <<content_memory, notifications, clock, ticks,
                           nextReportId, started, processed,
                           reports, topics, pure, agent, pipeline>>

\* detectNovelContent: await getContentMemory(topic, 50), then the verdict
AwaitGetContentMemory(p) ==
  /\ call[p].pc = "getContentMemory"
  /\ \/ Reject(p, "getContentMemory")
     \/ \E rows \in getContentMemory(call[p].topic, RecentMemories) :
          LET c           == call[p]
              keyFindings == KeyFindingsOf[c.html]
              contentHash == ContentHashOf[c.html]
          IN  /\ call' = [ call EXCEPT
                             ![p].verdict = NoveltyVerdict(keyFindings, c.novelUrls,
                                              RecentFindingsSet(rows), contentHash),
                             ![p].pc = AfterVerdict(c.op) ]
              /\ obs' = [ obs EXCEPT
                   ![p].rowsRead = rows,
                   ![p].newFindingAtRead =
                      \E k \in 1..Len(keyFindings) : ~FindingIsIn(keyFindings[k], rows),
                   ![p].allRecentAtRead =
                      /\ ~obs[p].newUrlAtRead
                      /\ \A k \in 1..Len(keyFindings) : FindingIsIn(keyFindings[k], rows) ]
              /\ UNCHANGED <<content_memory, notifications, clock, ticks,
                             nextReportId, started, processed,
                             reports, topics, pure, agent, pipeline>>

\* processReportMemory: await saveContentMemory(...), then the isNovel test
AwaitSaveContentMemory(p) ==
  /\ call[p].pc = "saveContentMemory"
  /\ \/ Reject(p, "saveContentMemory")
     \/ LET c    == call[p]
            next == AfterSave(c.verdict.isNovel)
        IN  /\ content_memory' =
                 Insert(content_memory,
                        saveContentMemory(c.topic, c.verdict.contentHash,
                                          KeyFindingsOf[c.html],
                                          SourceUrlsOf[c.html], c.reportId))
            /\ call' = [ call EXCEPT ![p].pc = next ]
            /\ processed' = IF next = "done"
                            THEN processed \cup {<<c.topic, c.html>>} ELSE processed
            /\ UNCHANGED <<notifications, clock, ticks, nextReportId, started, obs,
                           reports, topics, pure, agent, pipeline>>

\* processReportMemory: await createNotification(...), then return
AwaitCreateNotification(p) ==
  /\ call[p].pc = "createNotification"
  /\ \/ Reject(p, "createNotification")
     \/ LET c == call[p]
        IN  /\ notifications' =
                 Insert(notifications,
                        createNotification(c.reportId, c.userId, "new_report",
                                           NotificationTitle(c.topic),
                                           NotificationMessage(Len(c.verdict.novelFindings),
                                                               Len(c.verdict.novelUrls))))
            /\ call' = [ call EXCEPT ![p].notificationCreated = TRUE, ![p].pc = "done" ]
            /\ processed' = processed \cup {<<c.topic, c.html>>}
            /\ UNCHANGED <<content_memory, clock, ticks, nextReportId, started, obs,
                           reports, topics, pure, agent, pipeline>>

\* time passes: the length of the URL window, or a day more than that
Tick ==
  /\ ticks < MaxTicks
  /\ ticks' = ticks + 1
  /\ \E d \in {RecentDays, RecentDays + 1} : clock' = clock + d
  /\ UNCHANGED <<content_memory, notifications, nextReportId, started, call,
                 processed, obs,
                 reports, topics, pure, agent, pipeline>>

\* DELETE FROM reports for these ids, with what the schema cascades to
DeleteFromReports(ids) ==
  /\ reports' = { r \in reports : r.id \notin ids }
  /\ content_memory' = OnDeleteCascade(content_memory, ids)
  /\ notifications' = OnDeleteCascade(notifications, ids)

\* deleteReport(id): NotFoundError unless the report exists
DeleteReport(id) ==
  /\ \E r \in reports : r.id = id
  /\ DeleteFromReports({id})
  /\ UNCHANGED <<clock, ticks, nextReportId, started, call, processed, obs,
                 topics, pure, agent, pipeline>>

\* clearTopicReports(topic): deletes when the topic has reports
ClearTopicReports(topic) ==
  /\ ReportsOfTopic(topic) /= {}
  /\ DeleteFromReports(ReportsOfTopic(topic))
  /\ UNCHANGED <<clock, ticks, nextReportId, started, call, processed, obs,
                 topics, pure, agent, pipeline>>

\* deleteTopic(id), for the topic row of this name: NotFoundError unless the
\* topic exists; its reports are deleted, then the topic
DeleteTopic(topic) ==
  /\ topic \in topics
  /\ DeleteFromReports(ReportsOfTopic(topic))
  /\ topics' = topics \ {topic}
  /\ UNCHANGED <<clock, ticks, nextReportId, started, call, processed, obs, pure, agent, pipeline>>

Next ==
  \/ \E p \in Procs : \E req \in ConcurrentRequests : Call(p, req)
  \/ \E p \in Procs : AwaitHasContentHash(p)
  \/ \E p \in Procs : AwaitGetRecentSourceUrls(p)
  \/ \E p \in Procs : AwaitGetContentMemory(p)
  \/ \E p \in Procs : AwaitSaveContentMemory(p)
  \/ \E p \in Procs : AwaitCreateNotification(p)
  \/ Tick

\* concurrent callers on a fresh database
Spec == Init /\ [][Next]_vars

\* one caller, one call at a time
NextSequential ==
  \/ \E req \in Requests : Call(1, req)
  \/ AwaitHasContentHash(1)
  \/ AwaitGetRecentSourceUrls(1)
  \/ AwaitGetContentMemory(1)
  \/ AwaitSaveContentMemory(1)
  \/ AwaitCreateNotification(1)
  \/ Tick

\* sequential calls on a fresh database
SpecFresh == Init /\ [][NextSequential]_vars

\* sequential calls, on a fresh database or on one with a long history
SpecSequential == (Init \/ InitHistory) /\ [][NextSequential]_vars

\* one caller, one operation at a time, reports and topics being deleted
\* between the calls of the memory core
NextDelete ==
  \/ \E req \in DeleteRequests : Call(1, req)
  \/ AwaitHasContentHash(1)
  \/ AwaitGetRecentSourceUrls(1)
  \/ AwaitGetContentMemory(1)
  \/ AwaitSaveContentMemory(1)
  \/ AwaitCreateNotification(1)
  \/ ~Active(call[1]) /\ \E id \in 1..(nextReportId - 1) : DeleteReport(id)
  \/ ~Active(call[1]) /\ \E topic \in Topics : ClearTopicReports(topic)
  \/ ~Active(call[1]) /\ \E topic \in Topics : DeleteTopic(topic)

\* sequential calls and deletions on a fresh database
SpecDelete == Init /\ [][NextDelete]_vars

\* ------------------------------------------------------------------------
\* A loaded database file with a record that does not decode
\* ------------------------------------------------------------------------

\* the columns of the stored record of report ABu that hold no JSON
CorruptColumns == { {"key_findings"}, {"source_urls"}, {"key_findings", "source_urls"} }

\* the record of report ABu with the given columns damaged
CorruptRow(columns) ==
  [ HistoryRow(1) EXCEPT
      !.key_findings = IF "key_findings" \in columns THEN InvalidJson ELSE @,
      !.source_urls  = IF "source_urls" \in columns THEN InvalidJson ELSE @ ]

\* the calls made on the loaded database
CorruptRequests ==
  { [op |-> "process", topic |-> "T1", html |-> "Au", userId |-> Undefined],
    [op |-> "detect", topic |-> "T1", html |-> "ABu", userId |-> Undefined],
    [op |-> "detect", topic |-> "T1", html |-> "A", userId |-> Undefined] }

\* the database holds the record of report ABu, damaged in one or both of
\* its JSON columns
InitCorrupt ==
  /\ \E columns \in CorruptColumns : content_memory = <<CorruptRow(columns)>>
  /\ notifications = <<HistoryNotification(1)>>
  /\ clock = 0
  /\ nextReportId = 2
  /\ processed = {<<"T1", "ABu">>}
  /\ ticks = 0
  /\ started = 0
  /\ call = [ p \in Procs |-> IdleCall ]
  /\ obs = [ p \in Procs |-> NoObs ]
  /\ reports = { [id |-> 1, topic |-> "T1"] }
  /\ topics = Topics
  /\ pure = NoPure
  /\ agent = IdleAgent
  /\ pipeline = IdlePipeline

NextCorrupt ==
  \/ \E req \in CorruptRequests : Call(1, req)
  \/ AwaitHasContentHash(1)
  \/ AwaitGetRecentSourceUrls(1)
  \/ AwaitGetContentMemory(1)
  \/ AwaitSaveContentMemory(1)
  \/ AwaitCreateNotification(1)

\* sequential calls on a database with a record that does not decode
SpecCorrupt == InitCorrupt /\ [][NextCorrupt]_vars

\* ------------------------------------------------------------------------
\* The pure functions applied on their own: extractKeyFindings to two report
\* bodies, generateContentHash to two finding lists
\* ------------------------------------------------------------------------

\* the longest finding list given to generateContentHash directly
MaxListLen == 2

\* short findings: "a b", " A  b<tab>", "a", "b", "a|b"
ShortFindings ==
  { <<97, 32, 98>>, <<32, 65, 32, 32, 98, 9>>, <<97>>, <<98>>, <<97, 124, 98>> }

\* the finding lists given to generateContentHash directly
FindingLists == UNION { [1..n -> ShortFindings] : n \in 0..MaxListLen }

\* two report bodies, or two finding lists, are chosen
InitPure ==
  /\ content_memory = <<>>
  /\ notifications = <<>>
  /\ clock = 0
  /\ ticks = 0
  /\ nextReportId = 1
  /\ started = 0
  /\ call = [ p \in Procs |-> IdleCall ]
  /\ processed = {}
  /\ obs = [ p \in Procs |-> NoObs ]
  /\ reports = {}
  /\ topics = Topics
  /\ agent = IdleAgent
  /\ pipeline = IdlePipeline
  /\ \/ \E h1, h2 \in DOMAIN Html :
          pure = [ NoPure EXCEPT !.stage = "html", !.html = <<h1, h2>> ]
     \/ \E l1, l2 \in FindingLists :
          pure = [ NoPure EXCEPT !.stage = "findings", !.findings = <<l1, l2>> ]

\* extractKeyFindings is applied to the two report bodies
PureExtract ==
  /\ pure.stage = "html"
  /\ pure' = [ pure EXCEPT !.stage = "findings",
                           !.findings = <<extractKeyFindings(Html[pure.html[1]]),
                                          extractKeyFindings(Html[pure.html[2]])>> ]
  /\ UNCHANGED <<content_memory, notifications, clock, ticks, nextReportId, started,
                 call, processed, obs, reports, topics, agent, pipeline>>

\* generateContentHash is applied to the two finding lists
PureHash ==
  /\ pure.stage = "findings"
  /\ pure' = [ pure EXCEPT !.stage = "hashed",
                           !.hash = <<generateContentHash(pure.findings[1]),
                                      generateContentHash(pure.findings[2])>> ]
  /\ UNCHANGED <<content_memory, notifications, clock, ticks, nextReportId, started,
                 call, processed, obs, reports, topics, agent, pipeline>>

NextPure == PureExtract \/ PureHash

SpecPure == InitPure /\ [][NextPure]_vars

\* ------------------------------------------------------------------------
\* extractKeyFindings and extractSourceUrls on composed report bodies
\* ------------------------------------------------------------------------

\* the number of fragments a composed report body has at most
MaxPieces == 2

\* a sentence of n characters c
Chars(c, n) == Rep(c, n)

\* eleven sentences of 31 characters, "a" to "k", closed by "?!"
ElevenSentences == [ i \in 1..(MaxFindings + 1) |-> Chars(96 + i, MinFindingLen + 1) ]

RECURSIVE JoinTerminated(_)
JoinTerminated(q) ==
  IF q = <<>> THEN <<>> ELSE Head(q) \o <<63, 33, 32>> \o JoinTerminated(Tail(q))

\* The fragments report bodies are composed of.  text is the fragment, sentences
\* the sentences it holds once tags are stripped, entities decoded and blanks
\* trimmed, urls the http(s) href targets it holds, in order.
Pieces ==
  [ s10     |-> [ text      |-> Para(Chars(99, 10) \o <<46>>),
                  sentences |-> <<Chars(99, 10)>>,
                  urls      |-> <<>> ],
    s30pad  |-> [ text      |-> Para(<<32, 9>> \o Chars(100, MinFindingLen) \o <<32, 32, 33>>),
                  sentences |-> <<Chars(100, MinFindingLen)>>,
                  urls      |-> <<>> ],
    s31     |-> [ text      |-> Para(<<32>> \o Chars(101, MinFindingLen + 1) \o <<63>>),
                  sentences |-> <<Chars(101, MinFindingLen + 1)>>,
                  urls      |-> <<>> ],
    amp30   |-> [ text      |-> Para(Chars(109, MinFindingLen - 1)
                                       \o <<38, 97, 109, 112, 59, 46>>),
                  sentences |-> <<Chars(109, MinFindingLen - 1) \o <<38>>>>,
                  urls      |-> <<>> ],
    s499    |-> [ text      |-> Para(Chars(103, MaxFindingLen - 1) \o <<46>>),
                  sentences |-> <<Chars(103, MaxFindingLen - 1)>>,
                  urls      |-> <<>> ],
    s500    |-> [ text      |-> Para(Chars(104, MaxFindingLen) \o <<46>>),
                  sentences |-> <<Chars(104, MaxFindingLen)>>,
                  urls      |-> <<>> ],
    eleven  |-> [ text      |-> Para(JoinTerminated(ElevenSentences)),
                  sentences |-> ElevenSentences,
                  urls      |-> <<>> ],
    linkU   |-> [ text      |-> Anchor(UrlU) \o <<46>>,
                  sentences |-> <<<<120>>>>,
                  urls      |-> <<UrlU>> ],
    linkVUV |-> [ text      |-> Anchor(UrlV) \o Anchor(UrlU) \o Anchor(UrlV) \o <<46>>,
                  sentences |-> <<<<120, 32, 120, 32, 120>>>>,
                  urls      |-> <<UrlV, UrlU, UrlV>> ],
    \* <a href="http://">x</a>.   the target is empty
    noBody  |-> [ text      |-> Anchor(SubSeq(UrlU, 1, 7)) \o <<46>>,
                  sentences |-> <<<<120>>>>,
                  urls      |-> <<>> ],
    \* <a href="ttp://u">x</a>.   the scheme is neither http nor https
    noHttp  |-> [ text      |-> Anchor(Tail(UrlU)) \o <<46>>,
                  sentences |-> <<<<120>>>>,
                  urls      |-> <<>> ],
    \* <p><</p>.   a stray angle bracket
    stray   |-> [ text      |-> Para(<<60>>) \o <<46>>,
                  sentences |-> <<>>,
                  urls      |-> <<>> ] ]

\* the composed report bodies: sequences of fragment names
Compositions == UNION { [1..n -> DOMAIN Pieces] : n \in 0..MaxPieces }

RECURSIVE RawOf(_)
RawOf(names) ==
  IF names = <<>> THEN <<>> ELSE Pieces[Head(names)].text \o RawOf(Tail(names))

RECURSIVE SentencesIn(_)
SentencesIn(names) ==
  IF names = <<>> THEN <<>> ELSE Pieces[Head(names)].sentences \o SentencesIn(Tail(names))

RECURSIVE LinksIn(_)
LinksIn(names) ==
  IF names = <<>> THEN <<>> ELSE Pieces[Head(names)].urls \o LinksIn(Tail(names))

\* a report body is chosen
InitExtract ==
  /\ content_memory = <<>>
  /\ notifications = <<>>
  /\ clock = 0
  /\ ticks = 0
  /\ nextReportId = 1
  /\ started = 0
  /\ call = [ p \in Procs |-> IdleCall ]
  /\ processed = {}
  /\ obs = [ p \in Procs |-> NoObs ]
  /\ reports = {}
  /\ topics = Topics
  /\ agent = IdleAgent
  /\ pipeline = IdlePipeline
  /\ \E names \in Compositions :
       pure = [ stage |-> "raw", html |-> names, findings |-> <<>>, urls |-> <<>> ]

\* extractKeyFindings is applied to the report body
ApplyExtractKeyFindings ==
  /\ pure.stage \in {"raw", "urls"}
  /\ pure' = [ pure EXCEPT !.stage = IF pure.stage = "raw" THEN "findings" ELSE "both",
                           !.findings = extractKeyFindings(RawOf(pure.html)) ]
  /\ UNCHANGED <<content_memory, notifications, clock, ticks, nextReportId, started,
                 call, processed, obs, reports, topics, agent, pipeline>>

\* extractSourceUrls is applied to the report body
ApplyExtractSourceUrls ==
  /\ pure.stage \in {"raw", "findings"}
  /\ pure' = [ pure EXCEPT !.stage = IF pure.stage = "raw" THEN "urls" ELSE "both",
                           !.urls = extractSourceUrls(RawOf(pure.html)) ]
  /\ UNCHANGED <<content_memory, notifications, clock, ticks, nextReportId, started,
                 call, processed, obs, reports, topics, agent, pipeline>>

NextExtract == ApplyExtractKeyFindings \/ ApplyExtractSourceUrls

SpecExtract == InitExtract /\ [][NextExtract]_vars

\* ------------------------------------------------------------------------
\* The notification message on its own
\* ------------------------------------------------------------------------

\* the number of novel URLs a verdict has at most
MaxUrlCount == 10

\* the counts of a novel verdict: novelFindings.length and novelUrls.length
\* (isNovel: one of them is positive)
NovelCounts ==
  { c \in (0..MaxFindings) \X (0..MaxUrlCount) : c[1] > 0 \/ c[2] > 0 }

\* the counts of a novel verdict are chosen
InitMessage ==
  /\ content_memory = <<>>
  /\ notifications = <<>>
  /\ clock = 0
  /\ ticks = 0
  /\ nextReportId = 1
  /\ started = 0
  /\ call = [ p \in Procs |-> IdleCall ]
  /\ processed = {}
  /\ obs = [ p \in Procs |-> NoObs ]
  /\ reports = {}
  /\ topics = Topics
  /\ agent = IdleAgent
  /\ pipeline = IdlePipeline
  /\ \E c \in NovelCounts :
       pure = [ stage |-> "counts", novelCount |-> c[1], urlCount |-> c[2],
                message |-> <<>> ]

\* the message of the notification is composed
ComposeMessage ==
  /\ pure.stage = "counts"
  /\ pure' = [ pure EXCEPT !.stage = "message",
                           !.message = NotificationMessage(pure.novelCount, pure.urlCount) ]
  /\ UNCHANGED <<content_memory, notifications, clock, ticks, nextReportId, started,
                 call, processed, obs, reports, topics, agent, pipeline>>

NextMessage == ComposeMessage

SpecMessage == InitMessage /\ [][NextMessage]_vars

\* the topics researched: AI, a<b
AgentTopics == { <<65, 73>>, <<97, 60, 98>> }

\* n words separated by single blanks
Words(n) == [ i \in 1..(2 * n - 1) |-> IF i % 2 = 1 THEN 119 ELSE 32 ]

\* what the model's LLM answers to the synthesis prompt: nothing, blanks, 99
\* words, 100 words, 98 words between blanks
LlmSyntheses ==
  { <<>>, <<32, 10>>, Words(MIN_WORD_COUNT - 1), Words(MIN_WORD_COUNT),
    <<32>> \o Words(MIN_WORD_COUNT - 2) \o <<32>> }

\* the messages of the errors llm.invoke rejects with: API timeout, 401 key sk-abc1
ErrorMessages == { <<65, 80, 73, 32, 116, 105, 109, 101, 111, 117, 116>>, <<52, 48, 49, 32, 107,
    101, 121, 32, 115, 107, 45, 97, 98, 99, 49>> }

\* GraphRecursionError
RecursionMessage == <<82, 101, 99, 117, 114, 115, 105, 111, 110, 32, 108, 105, 109, 105, 116, 32,
    114, 101, 97, 99, 104, 101, 100>>

\* generateFallbackReport and generateErrorReport of the topics, results and
\* errors of the model, tabulated
FallbackReportOf ==
  [ t \in AgentTopics, k \in 0..MaxResults |-> generateFallbackReport(t, SearchResults(k)) ]
ErrorReportOf ==
  [ t \in AgentTopics, m \in ErrorMessages \cup {RecursionMessage} |->
      generateErrorReport(t, m) ]

\* the workflow state after a node has thrown
Thrown(state, message) == [ state EXCEPT !.node = "threw", !.threw = TRUE, !.error = message ]

\* the workflow state after synthesize has returned html and the conditional
\* edge has been followed
Synthesized(state, html) ==
  LET after == [ state EXCEPT !.synthesis = html, !.steps = @ + 1 ]
  IN  [ after EXCEPT !.node = IF shouldContinueSearch(after) = "planner"
                              THEN "planner" ELSE "END" ]

\* mutant of FinalReport: the synthesis is returned as it is
FinalReport_NoFallback(state) == state.synthesis

\* what runDeepResearchAgent returns when graph.invoke has resolved
FinalReport(state) ==
  IF state.synthesis = <<>> \/ Trim(state.synthesis) = <<>>
  THEN FallbackReportOf[state.topic, state.search_results]
  ELSE state.synthesis

\* runDeepResearchAgent(topic): the initial state is handed to the graph
RunDeepResearchAgent(topic) ==
  /\ agent.node \in {"idle", "returned"}
  /\ agent' = [ IdleAgent EXCEPT !.node = "planner", !.topic = topic ]
  /\ UNCHANGED <<content_memory, notifications, clock, ticks, nextReportId, started,
                 call, processed, obs, reports, topics, pure, pipeline>>

\* plannerNode: llm.invoke rejects, or the queries are set (one at least)
PlannerNode ==
  /\ agent.node = "planner"
  /\ IF agent.steps >= RecursionLimit
     THEN agent' = Thrown(agent, RecursionMessage)
     ELSE \/ \E message \in ErrorMessages : agent' = Thrown(agent, message)
          \/ \E n \in 1..MaxQueries :
               agent' = [ agent EXCEPT !.search_queries = n, !.node = "search",
                                       !.steps = @ + 1 ]
  /\ UNCHANGED <<content_memory, notifications, clock, ticks, nextReportId, started,
                 call, processed, obs, reports, topics, pure, pipeline>>

\* searchNode: failed searches are logged and give no result; iterations is
\* increased
SearchNode ==
  /\ agent.node = "search"
  /\ IF agent.steps >= RecursionLimit
     THEN agent' = Thrown(agent, RecursionMessage)
     ELSE \E k \in 0..MaxResults :
            /\ agent.search_queries = 0 => k = 0
            /\ agent' = [ agent EXCEPT !.search_results = k,
                                       !.iterations = @ + 1,
                                       !.passes = @ + 1,
                                       !.node = "synthesize",
                                       !.steps = @ + 1 ]
  /\ UNCHANGED <<content_memory, notifications, clock, ticks, nextReportId, started,
                 call, processed, obs, reports, topics, pure, pipeline>>

\* synthesisNode, then shouldContinueSearch: without results the fallback
\* report is the synthesis; otherwise llm.invoke rejects or answers
SynthesisNode ==
  /\ agent.node = "synthesize"
  /\ IF agent.steps >= RecursionLimit
     THEN agent' = Thrown(agent, RecursionMessage)
     ELSE IF agent.search_results = 0
     THEN agent' = Synthesized(agent, FallbackReportOf[agent.topic, 0])
     ELSE \/ \E message \in ErrorMessages : agent' = Thrown(agent, message)
          \/ \E html \in LlmSyntheses : agent' = Synthesized(agent, html)
  /\ UNCHANGED <<content_memory, notifications, clock, ticks, nextReportId, started,
                 call, processed, obs, reports, topics, pure, pipeline>>

\* runDeepResearchAgent: graph.invoke has resolved
GraphInvokeReturns ==
  /\ agent.node = "END"
  /\ agent' = [ agent EXCEPT !.node = "returned", !.result = FinalReport(agent) ]
  /\ UNCHANGED <<content_memory, notifications, clock, ticks, nextReportId, started,
                 call, processed, obs, reports, topics, pure, pipeline>>

\* runDeepResearchAgent: graph.invoke has rejected, the catch block returns
CatchError ==
  /\ agent.node = "threw"
  /\ agent' = [ agent EXCEPT !.node = "returned",
                             !.result = ErrorReportOf[agent.topic, agent.error] ]
  /\ UNCHANGED <<content_memory, notifications, clock, ticks, nextReportId, started,
                 call, processed, obs, reports, topics, pure, pipeline>>

NextAgent ==
  \/ \E topic \in AgentTopics : RunDeepResearchAgent(topic)
  \/ PlannerNode
  \/ SearchNode
  \/ SynthesisNode
  \/ GraphInvokeReturns
  \/ CatchError

\* runs of the research agent, one after the other
SpecAgent == Init /\ [][NextAgent]_vars

\* the same, every node call and every awaited call returning
SpecAgentLive ==
  /\ Init
  /\ [][NextAgent]_vars
  /\ WF_vars(PlannerNode)
  /\ WF_vars(SearchNode)
  /\ WF_vars(SynthesisNode)
  /\ WF_vars(GraphInvokeReturns)
  /\ WF_vars(CatchError)

\* ------------------------------------------------------------------------
\* pipeline.ts: the pipeline status and the manual trigger
\* ------------------------------------------------------------------------

\* the number of triggerManualRun calls made
MaxTriggers == 3

\* The functions registered with registerRunFunction: none, the research
\* cycle of index.ts, the function the trigger test registers (it sets a flag
\* of the test and has no await).
RunFunctions == { "null", "executeResearchCycle", "testFn" }

\* The research cycle marks the pipeline running when it is invoked, before
\* its first await.
RunMarksRunning(fn) == fn = "executeResearchCycle"

\* mutant of TriggerOutcome: the registration is tested first
TriggerOutcome_InitFirst(pipelineRunning, registeredRunFn) ==
  IF registeredRunFn = "null" THEN "Pipeline not initialized"
  ELSE IF pipelineRunning THEN "Pipeline is already running"
  ELSE "started"

\* mutant of TriggerOutcome: the running flag is not tested
TriggerOutcome_NoRunningCheck(pipelineRunning, registeredRunFn) ==
  IF registeredRunFn = "null" THEN "Pipeline not initialized" ELSE "started"

\* the two guards of triggerManualRun, in their order
TriggerOutcome(pipelineRunning, registeredRunFn) ==
  IF pipelineRunning THEN "Pipeline is already running"
  ELSE IF registeredRunFn = "null" THEN "Pipeline not initialized"
  ELSE "started"

\* registerRunFunction(fn)
RegisterRunFunction(fn) ==
  /\ pipeline.registeredRunFn /= fn
  /\ pipeline' = [ pipeline EXCEPT !.registeredRunFn = fn ]
  /\ UNCHANGED <<content_memory, notifications, clock, ticks, nextReportId, started,
                 call, processed, obs, reports, topics, pure, agent>>

\* triggerManualRun(): it has no await, so the call runs to its return in one
\* step; when it starts a run, the registered function runs up to its first
\* await within the call
TriggerManualRun ==
  /\ Len(pipeline.triggers) < MaxTriggers
  /\ LET outcome == TriggerOutcome(pipeline.pipelineRunning, pipeline.registeredRunFn)
         invoke  == outcome = "started"
         marks   == invoke /\ RunMarksRunning(pipeline.registeredRunFn)
     IN  pipeline' =
           [ pipeline EXCEPT
               !.pipelineRunning = IF marks THEN TRUE ELSE @,
               !.runs = IF marks THEN @ + 1 ELSE @,
               !.invocations = IF invoke THEN @ + 1 ELSE @,
               !.triggers =
                  Append(@, [ started |-> invoke,
                              reason |-> IF invoke THEN "undefined" ELSE outcome,
                              runningAtCall |-> pipeline.pipelineRunning,
                              fnAtCall |-> pipeline.registeredRunFn,
                              runsAtCall |-> pipeline.runs ]) ]
  /\ UNCHANGED <<content_memory, notifications, clock, ticks, nextReportId, started,
                 call, processed, obs, reports, topics, pure, agent>>

\* a run of the research cycle settles: the pipeline is marked not running and
\* the run is recorded; a rejection goes to the catch handler of
\* triggerManualRun, which logs it
RunSettles(status) ==
  /\ pipeline.runs > 0
  /\ pipeline' = [ pipeline EXCEPT
                     !.pipelineRunning = FALSE,
                     !.runs = @ - 1,
                     !.lastRunInfo = status,
                     !.failuresLogged = IF status = "error" THEN @ + 1 ELSE @ ]
  /\ UNCHANGED <<content_memory, notifications, clock, ticks, nextReportId, started,
                 call, processed, obs, reports, topics, pure, agent>>

NextPipeline ==
  \/ \E fn \in RunFunctions : RegisterRunFunction(fn)
  \/ TriggerManualRun
  \/ \E status \in {"success", "error"} : RunSettles(status)

\* manual triggers, registrations and runs, in every order
SpecPipeline == Init /\ [][NextPipeline]_vars

\* ------------------------------------------------------------------------
\* Properties
\* ------------------------------------------------------------------------

\* the call has returned to its caller
Done(c, op) == c.pc = "done" /\ c.op = op

\* detectNovelContent has returned its verdict in this call
HasVerdict(c) ==
  \/ c.pc \in {"saveContentMemory", "createNotification", "done"}
  \/ c.pc = "failed" /\ c.failedAt \in {"saveContentMemory", "createNotification"}

\* the notifications created for report id r
NotificationsOf(r) == { i \in 1..Len(notifications) : notifications[i].report_id = r }

\* the content memory rows written for report id r
RowsOf(r) == { i \in 1..Len(content_memory) : content_memory[i].report_id = r }

\* C1: a processReportMemory call that returns has notificationCreated = isNovel
\* and has created one notification if novel and none otherwise, for its
\* reportId and its userId ("anonymous" when omitted); a call made after a call
\* with the same topic and content has completed returns false, and a call
\* alone on a topic without history, with a finding, returns true.
C1_NotificationIffNovel ==
  \A p \in Procs :
    Done(call[p], "process") =>
      LET c == call[p]
          r == Returned(c)
      IN  /\ r.notificationCreated = r.isNovel
          /\ Cardinality(NotificationsOf(c.reportId)) = IF r.isNovel THEN 1 ELSE 0
          /\ \A i \in NotificationsOf(c.reportId) :
               notifications[i].user_id =
                 IF obs[p].userIdArg = Undefined THEN "anonymous" ELSE obs[p].userIdArg
          /\ obs[p].priorSame => ~r.notificationCreated
          /\ (obs[p].solo /\ obs[p].emptyAtStart /\ KeyFindingsOf[c.html] /= <<>>)
               => r.notificationCreated

\* C1 witness: the second of two calls with the same content has returned
\* false, after the first created its notification
C1_Witness ==
  \E p \in Procs :
    /\ Done(call[p], "process")
    /\ obs[p].priorSame
    /\ ~Returned(call[p]).notificationCreated
    /\ KeyFindingsOf[call[p].html] /= <<>>
    /\ \E i \in 1..Len(content_memory) :
         /\ content_memory[i].topic = call[p].topic
         /\ content_memory[i].report_id /= call[p].reportId
         /\ NotificationsOf(content_memory[i].report_id) /= {}

\* C2: the store changes only when a call's saveContentMemory succeeds, which
\* adds one row, of the call's topic and report, and keeps every other row; a
\* processReportMemory call that has returned has written exactly one row, and
\* when no other call ran meanwhile its topic holds one row more than when it
\* started.
C2_OneRecordPerCall ==
  [][ /\ content_memory' /= content_memory =>
           \E p \in Procs :
             /\ call[p].pc = "saveContentMemory"
             /\ call'[p].pc \in {"createNotification", "done"}
             /\ Len(content_memory') = Len(content_memory) + 1
             /\ SubSeq(content_memory', 1, Len(content_memory)) = content_memory
             /\ content_memory'[Len(content_memory')].topic = call[p].topic
             /\ content_memory'[Len(content_memory')].report_id = call[p].reportId
      /\ \A p \in Procs :
           Done(call'[p], "process") =>
             /\ Cardinality({ i \in 1..Len(content_memory') :
                                content_memory'[i].report_id = call'[p].reportId }) = 1
             /\ obs'[p].solo =>
                  Cardinality({ i \in 1..Len(content_memory') :
                                  content_memory'[i].topic = call'[p].topic })
                    = obs'[p].rowsAtStart + 1
    ]_vars

\* C2 witness: a call that was not novel has returned, and its row is stored
C2_Witness ==
  \E p \in Procs :
    /\ Done(call[p], "process")
    /\ ~Returned(call[p]).isNovel
    /\ Cardinality(RowsOf(call[p].reportId)) = 1
    /\ Cardinality(TopicRows(call[p].topic)) = obs[p].rowsAtStart + 1
    /\ obs[p].rowsAtStart > 0

\* C3: once processReportMemory(topic, id, content) has completed, every verdict
\* of detectNovelContent for the same topic and content is: not novel, no novel
\* findings, no novel URLs, every extracted finding known.
C3_ExactDuplicate ==
  \A p \in Procs :
    (HasVerdict(call[p]) /\ obs[p].priorSame) =>
      /\ call[p].verdict.isNovel = FALSE
      /\ call[p].verdict.novelFindings = <<>>
      /\ call[p].verdict.novelUrls = <<>>
      /\ call[p].verdict.knownFindings = KeyFindingsOf[call[p].html]

\* C3 witness: detectNovelContent has returned for content whose records all
\* lie outside the 50 most recent rows of the topic and outside the trailing
\* 7 days
C3_Witness ==
  \E p \in Procs :
    /\ Done(call[p], "detect")
    /\ obs[p].priorSame
    /\ KeyFindingsOf[call[p].html] /= <<>>
    /\ SourceUrlsOf[call[p].html] /= <<>>
    /\ \A i \in TopicRows(call[p].topic) :
         content_memory[i].content_hash = ContentHashOf[call[p].html] =>
           /\ clock - content_memory[i].created_at > RecentDays
           /\ Cardinality({ k \in TopicRows(call[p].topic) :
                              content_memory[k].created_at > content_memory[i].created_at })
                >= RecentMemories

\* C4 (as claimed): the verdict's isNovel is true exactly when a finding of the
\* report is absent from the topic's recently known findings or a URL of the
\* report is absent from the URLs of the trailing 7 days.
C4_NovelIffNewFindingOrUrl ==
  \A p \in Procs :
    HasVerdict(call[p]) =>
      (call[p].verdict.isNovel <=> (obs[p].newFindingAtRead \/ obs[p].newUrlAtRead))

\* C5 (as claimed): a call whose findings and URLs were all persisted by
\* earlier records of the topic, whatever their age, creates no notification.
C5_NoDuplicateAlert ==
  \A p \in Procs :
    (call[p].op = "process" /\ obs[p].persistedAtStart) =>
      /\ call[p].pc /= "createNotification"
      /\ ~call[p].notificationCreated
      /\ NotificationsOf(call[p].reportId) = {}

\* C5 (amended): a call whose findings all occur in the 50 most recent records
\* of the topic and whose URLs all occur in records of the trailing 7 days, as
\* the call reads them, creates no notification.
C5_NoDuplicateAlertInWindow ==
  \A p \in Procs :
    (call[p].op = "process" /\ HasVerdict(call[p]) /\ obs[p].allRecentAtRead) =>
      /\ call[p].pc /= "createNotification"
      /\ ~call[p].notificationCreated
      /\ NotificationsOf(call[p].reportId) = {}

\* C5 witness: a call with a URL and a hash not stored before, all of whose
\* findings and URLs are in the windows, has returned
C5_Witness ==
  \E p \in Procs :
    /\ Done(call[p], "process")
    /\ obs[p].allRecentAtRead
    /\ SourceUrlsOf[call[p].html] /= <<>>
    /\ \A i \in TopicRows(call[p].topic) :
         content_memory[i].content_hash = ContentHashOf[call[p].html]
           => content_memory[i].report_id = call[p].reportId

\* C6 (as claimed): when a finding of the report occurs, normalized, in no
\* record stored for the topic, the verdict is novel and lists the finding, and
\* a processReportMemory call that returns has created a notification.
C6_NoMissedNovelFinding ==
  \A p \in Procs :
    (HasVerdict(call[p]) /\ obs[p].unseenAtStart /= {}) =>
      /\ call[p].verdict.isNovel
      /\ obs[p].unseenAtStart \subseteq Range(call[p].verdict.novelFindings)
      /\ Done(call[p], "process") => Returned(call[p]).notificationCreated

\* C7 (as claimed): two calls for the same topic with the same content never
\* both create a notification.
C7_NoDoubleNotification ==
  \A p, q \in Procs :
    (/\ p /= q
     /\ Done(call[p], "process") /\ Done(call[q], "process")
     /\ call[p].topic = call[q].topic /\ call[p].html = call[q].html)
      => ~(call[p].notificationCreated /\ call[q].notificationCreated)

\* C8 (as claimed): a call whose createNotification fails does not fail: it
\* returns with notificationCreated = false.
C8_NotificationFailureNotFatal ==
  \A p \in Procs :
    call[p].failedAt = "createNotification" =>
      /\ call[p].pc = "done"
      /\ ~Returned(call[p]).notificationCreated

\* C9: createNotification is attempted only after the call's record is stored:
\* whenever a call is about to create its notification, has created it, or has
\* failed creating it, the row of its report is in the store; and every
\* notification for a report has that report's row.
C9_SaveBeforeNotify ==
  /\ \A p \in Procs :
       (\/ call[p].pc = "createNotification"
        \/ call[p].notificationCreated
        \/ call[p].failedAt = "createNotification")
         => \E i \in RowsOf(call[p].reportId) : content_memory[i].topic = call[p].topic
  /\ \A i \in 1..Len(notifications) : RowsOf(notifications[i].report_id) /= {}

\* C9 witness: createNotification has failed, and the record is in the store
C9_Witness ==
  \E p \in Procs :
    /\ call[p].pc = "failed"
    /\ call[p].failedAt = "createNotification"
    /\ RowsOf(call[p].reportId) /= {}
    /\ NotificationsOf(call[p].reportId) = {}

\* C10: a call whose saveContentMemory fails ends failed: it returns no result,
\* creates no notification and stores no record.
C10_SaveFailureIsFatal ==
  \A p \in Procs :
    call[p].failedAt = "saveContentMemory" =>
      /\ call[p].pc = "failed"
      /\ ~call[p].notificationCreated
      /\ NotificationsOf(call[p].reportId) = {}
      /\ RowsOf(call[p].reportId) = {}

\* C10 witness: saveContentMemory has failed in a call whose verdict was novel
C10_Witness ==
  \E p \in Procs :
    /\ call[p].pc = "failed"
    /\ call[p].failedAt = "saveContentMemory"
    /\ call[p].verdict.isNovel

\* the history queries of detectNovelContent
HistoryQueries == {"hasContentHash", "getRecentSourceUrls", "getContentMemory"}

\* C11: a call in which a history query fails ends failed, without a verdict;
\* it has written no record and created no notification, and the step in which
\* the query fails leaves both tables as they were.
C11_ReadFailureAborts ==
  /\ [](\A p \in Procs :
         call[p].failedAt \in HistoryQueries =>
           /\ call[p].pc = "failed"
           /\ call[p].verdict = NoVerdict
           /\ ~call[p].notificationCreated
           /\ RowsOf(call[p].reportId) = {}
           /\ NotificationsOf(call[p].reportId) = {})
  /\ [][ \A p \in Procs :
           (call[p].failedAt = "none" /\ call'[p].failedAt \in HistoryQueries) =>
             /\ content_memory' = content_memory
             /\ notifications' = notifications ]_vars

\* C11 witness: getContentMemory has failed in a processReportMemory call, after
\* the two earlier queries succeeded, on a topic that has records
C11_Witness ==
  \E p \in Procs :
    /\ call[p].op = "process"
    /\ call[p].pc = "failed"
    /\ call[p].failedAt = "getContentMemory"
    /\ TopicRows(call[p].topic) /= {}
    /\ RowsOf(call[p].reportId) = {}

\* the table content_memory without the rows of other topics
OnlyTopic(topic) ==
  LET IsOfTopic(row) == row.topic = topic IN SelectSeq(content_memory, IsOfTopic)

\* the rows that the 'limit' most recent rows of a table can be
MostRecentOf(table, limit) ==
  LET all      == 1..Len(table)
      Newer(i) == { k \in all : table[k].created_at > table[i].created_at }
      Tied(i)  == { k \in all : table[k].created_at = table[i].created_at }
  IN  IF Len(table) <= limit THEN {all}
      ELSE LET edge == CHOOSE i \in all :
                         /\ Cardinality(Newer(i)) < limit
                         /\ Cardinality(Newer(i)) + Cardinality(Tied(i)) >= limit
           IN  { Newer(edge) \cup T :
                   T \in { X \in SUBSET Tied(edge) :
                             Cardinality(X) = limit - Cardinality(Newer(edge)) } }

\* the verdicts detectNovelContent can give for a report when the table it
\* consults is 'table', whatever the topics of its rows, and the URL window
\* ends at 'now'
VerdictsOn(table, now, html) ==
  LET keyFindings == KeyFindingsOf[html]
      contentHash == ContentHashOf[html]
      recentUrls  == UNION { Range(table[i].source_urls) :
                               i \in { k \in 1..Len(table) :
                                         table[k].created_at >= now - RecentDays } }
      Findings(rows) ==
        UNION { { Normalized[f] : f \in Range(table[i].key_findings) } : i \in rows }
  IN  IF \E i \in 1..Len(table) : table[i].content_hash = contentHash
      THEN { ExactDuplicateVerdict(keyFindings, contentHash) }
      ELSE { NoveltyVerdict(keyFindings, NovelUrls(SourceUrlsOf[html], recentUrls),
                            Findings(rows), contentHash)
               : rows \in MostRecentOf(table, RecentMemories) }

\* the verdict of the call is in hand and the store is as the call read it
VerdictFresh(c) ==
  \/ c.op = "process" /\ c.pc = "saveContentMemory"
  \/ c.op = "detect" /\ c.pc = "done"

\* C12: the verdict of a call for a topic is one that detectNovelContent gives
\* on the store without the rows of every other topic, whatever those rows
\* hold; and getContentMemory for a topic returns rows of that topic only.
C12_TopicIsolation ==
  /\ \A p \in Procs :
       VerdictFresh(call[p]) =>
         call[p].verdict \in VerdictsOn(OnlyTopic(call[p].topic),
                                        obs[p].clockAtUrlRead, call[p].html)
  /\ \A t \in Topics : \A rows \in getContentMemory(t, RecentMemories) :
       \A i \in rows : content_memory[i].topic = t

\* C12 witness: a report is found novel, with a novel URL, for a topic while
\* a record of a topic whose name differs in letter case only holds the same
\* hash, the same findings and the same URL
C12_Witness ==
  \E p \in Procs :
    /\ VerdictFresh(call[p])
    /\ call[p].verdict.isNovel
    /\ call[p].verdict.novelFindings /= <<>>
    /\ call[p].verdict.novelUrls /= <<>>
    /\ \E i \in 1..Len(content_memory) :
         /\ content_memory[i].topic /= call[p].topic
         /\ content_memory[i].content_hash = call[p].verdict.contentHash
         /\ content_memory[i].key_findings = KeyFindingsOf[call[p].html]
         /\ content_memory[i].source_urls = SourceUrlsOf[call[p].html]

\* C13: for a topic without records, the verdict on a report with at least one
\* finding is novel, with every extracted finding novel and none known.
C13_FirstSeenNovel ==
  \A p \in Procs :
    (HasVerdict(call[p]) /\ obs[p].emptyAtStart /\ KeyFindingsOf[call[p].html] /= <<>>) =>
      /\ call[p].verdict.isNovel
      /\ call[p].verdict.novelFindings = KeyFindingsOf[call[p].html]
      /\ call[p].verdict.knownFindings = <<>>

\* C13 witness: detectNovelContent has returned for a report with findings and
\* without URLs, on a topic without records
C13_Witness ==
  \E p \in Procs :
    /\ Done(call[p], "detect")
    /\ obs[p].emptyAtStart
    /\ TopicRows(call[p].topic) = {}
    /\ KeyFindingsOf[call[p].html] /= <<>>
    /\ SourceUrlsOf[call[p].html] = <<>>
    /\ call[p].verdict.isNovel

\* rows is a choice of the 'limit' most recently created rows of the topic
IsMostRecent(rows, topic, limit) ==
  LET all == { i \in 1..Len(content_memory) : content_memory[i].topic = topic }
  IN  /\ rows \subseteq all
      /\ Cardinality(rows) = IF Cardinality(all) <= limit THEN Cardinality(all) ELSE limit
      /\ \A i \in rows : \A k \in all \ rows :
           content_memory[k].created_at <= content_memory[i].created_at

\* the topic has records, and all of them hold the findings of report h only
HistoryHoldsOnly(topic, h) ==
  /\ \E i \in 1..Len(content_memory) : content_memory[i].topic = topic
  /\ \A i \in 1..Len(content_memory) :
       content_memory[i].topic = topic => content_memory[i].key_findings = KeyFindingsOf[h]

\* C14: in every verdict novelFindings and knownFindings split the extracted
\* findings, each in the original order; when the hash was not stored, the
\* known findings are those whose normalized form occurs in the rows read, which
\* are 50 most recent rows of the topic; and with a history of finding A only,
\* the report with A and B gets novelFindings = [B], knownFindings = [A],
\* isNovel = true.
C14_FindingsPartition ==
  \A p \in Procs :
    LET c           == call[p]
        keyFindings == KeyFindingsOf[c.html]
        InNovel(f)  == f \in Range(c.verdict.novelFindings)
        InKnown(f)  == f \in Range(c.verdict.knownFindings)
    IN  /\ HasVerdict(c) =>
             /\ c.verdict.novelFindings = SelectSeq(keyFindings, InNovel)
             /\ c.verdict.knownFindings = SelectSeq(keyFindings, InKnown)
             /\ \A f \in Range(keyFindings) : InNovel(f) <=> ~InKnown(f)
             /\ ~obs[p].hashStored =>
                  \A f \in Range(keyFindings) :
                    InKnown(f) <=> FindingIsIn(f, obs[p].rowsRead)
        /\ (VerdictFresh(c) /\ ~obs[p].hashStored) =>
             IsMostRecent(obs[p].rowsRead, c.topic, RecentMemories)
        /\ (VerdictFresh(c) /\ c.html = "AB" /\ HistoryHoldsOnly(c.topic, "A")) =>
             /\ c.verdict.novelFindings = <<Sentence(98)>>
             /\ c.verdict.knownFindings = <<Sentence(97)>>
             /\ c.verdict.isNovel

\* C14 witness: the verdict on the report with findings A and B, for a topic
\* whose history holds finding A only
C14_Witness ==
  \E p \in Procs :
    /\ VerdictFresh(call[p])
    /\ call[p].html = "AB"
    /\ HistoryHoldsOnly(call[p].topic, "A")
    /\ Len(call[p].verdict.novelFindings) = 1
    /\ Len(call[p].verdict.knownFindings) = 1

\* C15: when the hash was not stored, novelUrls is the extracted URLs, in
\* extraction order, without those that occur in a record of the topic created
\* at most 7 days before the URLs were read.
C15_NovelUrlsOutsideWindow ==
  \A p \in Procs :
    (HasVerdict(call[p]) /\ ~obs[p].hashStored) =>
      LET c        == call[p]
          window   == { i \in 1..Len(content_memory) :
                          /\ content_memory[i].topic = c.topic
                          /\ i \notin RowsOf(c.reportId)
                          /\ content_memory[i].created_at <= obs[p].clockAtUrlRead
                          /\ obs[p].clockAtUrlRead - content_memory[i].created_at
                               <= RecentDays }
          IsNew(u) == \A i \in window : u \notin Range(content_memory[i].source_urls)
      IN  c.verdict.novelUrls = SelectSeq(SourceUrlsOf[c.html], IsNew)

\* C15 witness: of two extracted URLs, both are novel, in extraction order,
\* and one of them is recorded for the topic, by a record older than 7 days
C15_Witness ==
  \E p \in Procs :
    /\ VerdictFresh(call[p])
    /\ ~obs[p].hashStored
    /\ call[p].verdict.novelUrls = <<UrlV, UrlU>>
    /\ \E i \in TopicRows(call[p].topic) :
         /\ UrlU \in Range(content_memory[i].source_urls)
         /\ clock - content_memory[i].created_at > RecentDays

\* the findings of a list, normalized, in the order of the list
NormalizedList(q) == [ i \in 1..Len(q) |-> NormalizeFinding(q[i]) ]

\* two lists hold the same elements the same number of times
SameCollection(q, r) ==
  \A x \in Range(q) \cup Range(r) :
    Cardinality({ i \in 1..Len(q) : q[i] = x }) = Cardinality({ i \in 1..Len(r) : r[i] = x })

\* C16: two finding lists that hold the same normalized findings, in any order
\* and with any letter case and whitespace, have the same hash.
C16_HashDeterminism ==
  pure.stage = "hashed" =>
    (SameCollection(NormalizedList(pure.findings[1]), NormalizedList(pure.findings[2]))
       => pure.hash[1] = pure.hash[2])

\* C16 witness: two lists of two findings, in different orders and differing
\* in letter case and whitespace, have been hashed to the same value
C16_Witness ==
  /\ pure.stage = "hashed"
  /\ Len(pure.findings[1]) = 2
  /\ pure.findings[1][1] /= pure.findings[1][2]
  /\ NormalizeFinding(pure.findings[1][1]) /= NormalizeFinding(pure.findings[1][2])
  /\ Range(pure.findings[1]) /= Range(pure.findings[2])
  /\ SameCollection(NormalizedList(pure.findings[1]), NormalizedList(pure.findings[2]))
  /\ NormalizedList(pure.findings[1]) /= NormalizedList(pure.findings[2])
  /\ pure.hash[1] = pure.hash[2]

\* C17 (as claimed): no finding extracted from a report body holds the
\* separator, and two report bodies whose findings differ after normalization
\* have different hashes.
C17_SeparatorUnambiguous ==
  (pure.stage = "hashed" /\ pure.html /= <<>>) =>
    /\ \A k \in 1..2 : \A f \in Range(pure.findings[k]) : Ascii.pipe \notin Range(f)
    /\ ~SameCollection(NormalizedList(pure.findings[1]), NormalizedList(pure.findings[2]))
         => pure.hash[1] /= pure.hash[2]

\* C18: the hash of every stored record is generateContentHash of the findings
\* of the record.
C18_HashOfOwnFindings ==
  \A i \in 1..Len(content_memory) :
    content_memory[i].content_hash = generateContentHash(content_memory[i].key_findings)

\* C18 witness: a call has stored a record with two findings, one of which
\* differs from its normalized form
C18_Witness ==
  \E p \in Procs : \E i \in RowsOf(call[p].reportId) :
    /\ call[p].op = "process"
    /\ Len(content_memory[i].key_findings) = 2
    /\ \E f \in Range(content_memory[i].key_findings) : Normalized[f] /= f
    /\ content_memory[i].content_hash /= <<>>

\* C19 (as claimed): every stored record has its report: no record remains
\* once its report is deleted by deleteReport, clearTopicReports or deleteTopic.
C19_NoRecordOutlivesReport ==
  \A i \in 1..Len(content_memory) :
    \E r \in reports : r.id = content_memory[i].report_id

\* C20: no step removes or changes an existing record; a step of a
\* detectNovelContent call leaves the table as it is; and the table changes
\* only by the one record that a processReportMemory call saves.
C20_RecordsImmutable ==
  [][ /\ Len(content_memory') >= Len(content_memory)
      /\ \A i \in 1..Len(content_memory) : content_memory'[i] = content_memory[i]
      /\ \A p \in Procs :
           (call'[p] /= call[p] /\ call'[p].op = "detect")
             => content_memory' = content_memory
      /\ content_memory' /= content_memory =>
           /\ Len(content_memory') = Len(content_memory) + 1
           /\ \E p \in Procs :
                /\ call[p].op = "process"
                /\ call[p].pc = "saveContentMemory"
                /\ content_memory'[Len(content_memory')].report_id = call[p].reportId
    ]_vars

\* C20 witness: detectNovelContent has returned for a topic that has a record
\* whose report was deleted, and the records of the topic are those it had
\* when the call started
C20_Witness ==
  \E p \in Procs :
    /\ Done(call[p], "detect")
    /\ obs[p].rowsAtStart > 0
    /\ Cardinality(TopicRows(call[p].topic)) = obs[p].rowsAtStart
    /\ \E i \in TopicRows(call[p].topic) :
         \A r \in reports : r.id /= content_memory[i].report_id

\* the first n elements of a sequence
FirstN(q, n) == SubSeq(q, 1, IF Len(q) < n THEN Len(q) ELSE n)

\* extractKeyFindings has been applied to the composed report body
FindingsExtracted == pure.stage \in {"findings", "both"}

\* the sentences of the body that are longer than 30 and shorter than 500
\* characters once trimmed, in the order of the body
QualifyingSentences ==
  SelectSeq(SentencesIn(pure.html), LAMBDA s : Len(s) > 30 /\ Len(s) < 500)

\* C21: extractKeyFindings returns, in the order of the text, only the
\* sentences whose trimmed length is strictly above 30 and strictly below 500
\* characters, and the first 10 of them at most; it returns the empty sequence
\* for the empty string, and a sequence of strings for every body.
C21_ExtractKeyFindings ==
  FindingsExtracted =>
    /\ pure.findings = FirstN(QualifyingSentences, 10)
    /\ Len(pure.findings) <= 10
    /\ \A i \in 1..Len(pure.findings) :
         Len(pure.findings[i]) > 30 /\ Len(pure.findings[i]) < 500
    /\ (RawOf(pure.html) = <<>> => pure.findings = <<>>)

\* a body with a sentence of 500 characters and more than 10 qualifying
\* sentences after it has been cut to the first 10 of these
C21_Witness ==
  /\ FindingsExtracted
  /\ Len(QualifyingSentences) > 10
  /\ Len(pure.findings) = 10
  /\ Len(Head(SentencesIn(pure.html))) = 500

\* extractSourceUrls has been applied to the composed report body
UrlsExtracted == pure.stage \in {"urls", "both"}

\* the position of the first occurrence of x in q
FirstIndexOf(q, x) == Least({ i \in 1..Len(q) : q[i] = x })

\* C22: extractSourceUrls returns every http(s) href target of the body once,
\* in the order of first occurrence: no URL twice, two identical targets give
\* one URL, and a body without such a target (the empty string, a target
\* without body, another scheme, a stray bracket) gives the empty sequence.
C22_ExtractSourceUrls ==
  UrlsExtracted =>
    LET links == LinksIn(pure.html)
        urls  == pure.urls
    IN  /\ Range(urls) = Range(links)
        /\ \A i, j \in 1..Len(urls) : urls[i] = urls[j] => i = j
        /\ \A i, j \in 1..Len(urls) :
             i < j => FirstIndexOf(links, urls[i]) < FirstIndexOf(links, urls[j])
        /\ (links = <<>> => urls = <<>>)

\* a body that links V, U, V and then U has given V then U; the fragment with
\* a target without body has given nothing
C22_Witness ==
  /\ UrlsExtracted
  /\ pure.html = <<"linkVUV", "linkU">>
  /\ pure.urls = <<UrlV, UrlU>>

\* the call of p has come past its await of saveContentMemory
RecordWritten(p) ==
  /\ call[p].op = "process"
  /\ \/ call[p].pc \in {"createNotification", "done"}
     \/ call[p].pc = "failed" /\ call[p].failedAt = "createNotification"

\* C23: once processReportMemory has saved, the store holds one record of the
\* report, with the topic and reportId given, the contentHash of the verdict,
\* and all findings and URLs extracted from the report, novel or not; this is
\* so when the verdict is "not novel", too.
C23_RecordHoldsFullExtraction ==
  \A p \in Procs :
    RecordWritten(p) =>
      /\ Cardinality(RowsOf(call[p].reportId)) = 1
      /\ \A i \in RowsOf(call[p].reportId) :
           /\ content_memory[i].topic = call[p].topic
           /\ content_memory[i].report_id = call[p].reportId
           /\ content_memory[i].content_hash = call[p].verdict.contentHash
           /\ content_memory[i].key_findings = KeyFindingsOf[call[p].html]
           /\ content_memory[i].source_urls = SourceUrlsOf[call[p].html]

\* a report with a finding and a URL was judged not novel, and its record
\* holds the finding and the URL all the same
C23_Witness ==
  \E p \in Procs : \E i \in RowsOf(call[p].reportId) :
    /\ RecordWritten(p)
    /\ ~call[p].verdict.isNovel
    /\ call[p].verdict.novelFindings = <<>>
    /\ content_memory[i].key_findings /= <<>>
    /\ content_memory[i].source_urls /= <<>>

\* the call of p has read a record of which key_findings or source_urls does
\* not decode
ReadUndecodable(p) ==
  \/ \E i \in obs[p].rowsRead : ~JsonParses(content_memory[i].key_findings)
  \/ \E i \in obs[p].urlRowsRead : ~JsonParses(content_memory[i].source_urls)

\* C24 (as claimed): no error is swallowed while the history is read: a call
\* whose reads met a record that does not decode gets no verdict from
\* detectNovelContent, it fails.
C24_UndecodableRecordFails ==
  \A p \in Procs : ReadUndecodable(p) => ~HasVerdict(call[p])

\* the records of the topic of the call of p that were stored before the call
\* wrote its own
PreCallStore(p) ==
  LET IsEarlier(row) == row.topic = call[p].topic /\ row.report_id /= call[p].reportId
  IN  SelectSeq(content_memory, IsEarlier)

\* C25: in a call of processReportMemory the verdict is the one
\* detectNovelContent gives on the history without the record of the call:
\* detection precedes the write, a report is not a duplicate of itself, and
\* the isNovel and novelFindings returned are those of that verdict.
C25_VerdictOnPreCallStore ==
  \A p \in Procs :
    RecordWritten(p) =>
      \E v \in VerdictsOn(PreCallStore(p), obs[p].clockAtUrlRead, call[p].html) :
        /\ call[p].verdict = v
        /\ Done(call[p], "process") =>
             /\ Returned(call[p]).isNovel = v.isNovel
             /\ Returned(call[p]).novelFindings = v.novelFindings

\* a first report on a topic has returned as novel, with its finding novel,
\* and the store now holds its hash for the topic
C25_Witness ==
  \E p \in Procs :
    /\ Done(call[p], "process")
    /\ PreCallStore(p) = <<>>
    /\ hasContentHash(call[p].topic, call[p].verdict.contentHash)
    /\ Returned(call[p]).isNovel
    /\ Returned(call[p]).novelFindings = KeyFindingsOf[call[p].html]
    /\ Returned(call[p]).novelFindings /= <<>>

\* the message has been composed
MessageComposed == pure.stage = "message"

\* C26: for all counts with novelCount + urlCount >= 1 the message says
\* "finding" exactly when novelCount = 1 and "findings" exactly when
\* novelCount > 1, "source" exactly when urlCount = 1 and "sources" exactly
\* when urlCount > 1; without novel URLs it has no sources part, and without
\* novel findings it is "N new source(s) found."
C26_MessageWording ==
  MessageComposed =>
    LET n     == pure.novelCount
        u     == pure.urlCount
        words == Range(pure.message)
        noun  == IF u = 1 THEN "source" ELSE "sources"
    IN  /\ "finding" \in words <=> n = 1
        /\ "findings" \in words <=> n > 1
        /\ "source" \in words <=> u = 1
        /\ "sources" \in words <=> u > 1
        /\ n > 0 => SubSeq(pure.message, 1, 4) =
                      <<ToString(n), "new", IF n = 1 THEN "finding" ELSE "findings",
                        "detected">>
        /\ n > 0 /\ u = 0 => Len(pure.message) = 5 /\ "with" \notin words
        /\ n > 0 /\ u > 0 => SubSeq(pure.message, 5, 8) = <<"with", ToString(u), "new", noun>>
        /\ n = 0 => pure.message = <<ToString(u), "new", noun, "found", ".">>
        /\ pure.message[Len(pure.message)] = "."

\* the message for one novel finding and two novel URLs
C26_Witness ==
  /\ MessageComposed
  /\ pure.novelCount = 1
  /\ pure.urlCount = 2
  /\ pure.message = <<"1", "new", "finding", "detected", "with", "2", "new", "sources", ".">>

\* the workflow is between START and END
InWorkflow == agent.node \in {"planner", "search", "synthesize"}

\* the words of a text: its runs of characters other than whitespace
WordsIn(s) ==
  Cardinality({ i \in 1..Len(s) : ~IsSpace(s[i]) /\ (i = 1 \/ IsSpace(s[i - 1])) })

\* the edges of the graph, with the throw of a node that calls the LLM and the
\* two ways runDeepResearchAgent returns
WorkflowEdges ==
  { <<"idle", "planner">>, <<"returned", "planner">>,
    <<"planner", "search">>, <<"search", "synthesize">>,
    <<"synthesize", "planner">>, <<"synthesize", "END">>,
    <<"planner", "threw">>, <<"synthesize", "threw">>,
    <<"END", "returned">>, <<"threw", "returned">> }

Blank(s) == \A i \in 1..Len(s) : IsSpace(s[i])

\* <div class="report-item
ReportItemOpening == <<60, 100, 105, 118, 32, 99, 108, 97, 115, 115, 61, 34, 114, 101, 112, 111,
    114, 116, 45, 105, 116, 101, 109>>

IsTrigger == Len(pipeline'.triggers) = Len(pipeline.triggers) + 1

\* the pipeline status, the registration and the runs are as before the step
PipelineUntouched ==
  /\ pipeline'.pipelineRunning = pipeline.pipelineRunning
  /\ pipeline'.lastRunInfo = pipeline.lastRunInfo
  /\ pipeline'.registeredRunFn = pipeline.registeredRunFn
  /\ pipeline'.runs = pipeline.runs
  /\ pipeline'.invocations = pipeline.invocations

\* C28: triggerManualRun called while the pipeline is marked running returns
\* started = false with "already running", whatever is registered; called when
\* nothing is registered it returns started = false with "not initialized";
\* in both cases the registered function is not invoked and the pipeline is
\* left as it was.  Otherwise it invokes the registered function once and
\* returns started = true, the run still being in progress; a run that fails
\* later changes nothing of what the caller was given.
C28_TriggerGuards ==
  /\ [](\A i \in 1..Len(pipeline.triggers) :
          LET r == pipeline.triggers[i]
          IN  /\ r.runningAtCall =>
                   ~r.started /\ r.reason = "Pipeline is already running"
              /\ ~r.runningAtCall /\ r.fnAtCall = "null" =>
                   ~r.started /\ r.reason = "Pipeline not initialized"
              /\ ~r.runningAtCall /\ r.fnAtCall /= "null" => r.started)
  /\ [][IsTrigger =>
          LET r == pipeline'.triggers[Len(pipeline'.triggers)]
          IN  /\ ~r.started => PipelineUntouched
              /\ r.started => pipeline'.invocations = pipeline.invocations + 1]_vars
  /\ [][~IsTrigger => pipeline'.triggers = pipeline.triggers
                        /\ pipeline'.invocations = pipeline.invocations]_vars

\* a call has been refused as "already running" while nothing was registered,
\* another has returned started = true with its run still in progress, and a
\* run has failed
C28_Witness ==
  /\ \E i \in 1..Len(pipeline.triggers) :
       /\ pipeline.triggers[i].runningAtCall
       /\ pipeline.triggers[i].fnAtCall = "null"
       /\ pipeline.triggers[i].reason = "Pipeline is already running"
  /\ \E i \in 1..Len(pipeline.triggers) : pipeline.triggers[i].started
  /\ pipeline.triggers[Len(pipeline.triggers)].started
  /\ pipeline.runs = 1
  /\ pipeline.failuresLogged = 1

====
